---- MODULE Spec2Model ----
(***************************************************************************)
(* Model of the RealtimeSession Durable Object (workers/realtime): one     *)
(* session bridges a client WebSocket to the upstream Realtime WebSocket,  *)
(* filters client events through a whitelist, accumulates streamed tool    *)
(* call arguments and feeds tool results back upstream.                    *)
(*                                                                         *)
(* Every handler of the class is one action.  Text is modelled as a        *)
(* sequence of tokens, a wire message as its raw form (text or binary,     *)
(* canonical JSON or not) plus the value JSON.parse yields for it.         *)
(***************************************************************************)
EXTENDS Integers, Sequences, FiniteSets, TLC

\* ------------------------------------------------------------------------
\* Bounds of the model
\* ------------------------------------------------------------------------

\* number of argument fragments the pending-call mapping holds at a time
MaxFragments == 3

\* ------------------------------------------------------------------------
\* JavaScript values, as far as the handlers look at them
\* ------------------------------------------------------------------------

\* a property that is absent reads as undefined
Undef == [t |-> "undefined", v |-> ""]
Str(s) == [t |-> "string", v |-> s]
\* a non-zero number in a place where a string is expected
Num == [t |-> "number", v |-> "5"]

\* the same for text that is handled piecewise (token sequences)
UndefText == [t |-> "undefined", v |-> <<>>]
Text(q) == [t |-> "string", v |-> q]

\* JavaScript truthiness of the values above: undefined and "" are falsy
Truthy(x) == x.t # "undefined" /\ x.v # ""
TruthyText(x) == x.t # "undefined" /\ x.v # <<>>

\* ------------------------------------------------------------------------
\* shared/src/types.ts
\* ------------------------------------------------------------------------

ALLOWED_CLIENT_EVENT_TYPES ==
  { "input_audio_buffer.append",
    "input_audio_buffer.commit",
    "response.cancel",
    "conversation.item.truncate",
    "response.create",
    "conversation.item.create",
    "session.update" }

\* a membership test that lets every non-empty string through
IncludesAnyString(eventType) == eventType.t = "string" /\ eventType.v # ""

\* (ALLOWED_CLIENT_EVENT_TYPES as readonly string[]).includes(eventType):
\* SameValueZero against the seven strings, so only a string can match
IncludesAllowed(eventType) ==
  eventType.t = "string" /\ eventType.v \in ALLOWED_CLIENT_EVENT_TYPES

\* ------------------------------------------------------------------------
\* Wire data and JSON
\* ------------------------------------------------------------------------

\* what JSON.parse yields: k is "null", "scalar" (number, string, boolean,
\* array: property reads give undefined) or "object"; k = "garbage" marks
\* text that is no JSON.  Reading a property of a non-object gives undefined.
NoFields == [type |-> Undef, call_id |-> Undef, name |-> Undef,
             delta |-> UndefText, arguments |-> UndefText]
Garbage == [k |-> "garbage"] @@ NoFields
JsonNull == [k |-> "null"] @@ NoFields
JsonScalar == [k |-> "scalar"] @@ NoFields
Obj(type, call_id, name, delta, arguments) ==
  [k |-> "object", type |-> type, call_id |-> call_id, name |-> name,
   delta |-> delta, arguments |-> arguments]

\* data of a WebSocket message event: an ArrayBuffer (text = FALSE) or a
\* string; canon tells whether the string is what JSON.stringify gives
Binary == [text |-> FALSE, canon |-> FALSE, body |-> Garbage]
Raw(body, canon) == [text |-> TRUE, canon |-> canon, body |-> body]

JsonParseThrows(data) == data.body.k = "garbage"
JsonParse(data) == data.body
JsonStringify(value) == Raw(value, TRUE)

\* ------------------------------------------------------------------------
\* Text of tool arguments: a sequence of tokens
\* ------------------------------------------------------------------------

\* a join that puts later fragments first
RECURSIVE JoinReversed(_)
JoinReversed(frags) ==
  IF frags = <<>> THEN <<>> ELSE JoinReversed(Tail(frags)) \o Head(frags)

\* Array.prototype.join(""): the fragments one after the other
RECURSIVE Join(_)
Join(frags) ==
  IF frags = <<>> THEN <<>> ELSE Head(frags) \o Join(Tail(frags))

\* values of the properties the tools read
NoValue == [t |-> "undefined", n |-> 0, s |-> ""]
NumValue(n) == [t |-> "number", n |-> n, s |-> ""]
StrValue(s) == [t |-> "string", n |-> 0, s |-> s]

ArgsObject(vocabulary, grammar, fluency, notes, lesson_id, focus) ==
  [k |-> "object", vocabulary_score |-> vocabulary, grammar_score |-> grammar,
   fluency_score |-> fluency, notes |-> notes, lesson_id |-> lesson_id,
   focus |-> focus]
EmptyArgs == ArgsObject(NoValue, NoValue, NoValue, NoValue, NoValue, NoValue)
\* JSON.parse("null"): reading a property of it throws a TypeError
NullArgs == [EmptyArgs EXCEPT !.k = "null"]
\* a number, string, boolean or array: every property read gives undefined
ScalarArgs == [EmptyArgs EXCEPT !.k = "scalar"]

\* JSON.parse of an argument string: "{}" is the empty object, "null" is
\* null, a run of digits "7" a number; every other token sequence is a
\* syntax error
IsNumberText(q) == q # <<>> /\ \A i \in 1..Len(q) : q[i] = "7"
ArgsParseThrows(q) ==
  ~(q = <<"{", "}">> \/ q = <<"null">> \/ IsNumberText(q))
ArgsParse(q) ==
  CASE q = <<"null">> -> NullArgs
    [] IsNumberText(q) -> ScalarArgs
    [] OTHER -> EmptyArgs

\* ------------------------------------------------------------------------
\* workers/realtime/src/tools.ts
\* ------------------------------------------------------------------------

NumberOr0(x) == IF x.t = "number" THEN x.n ELSE 0

\* an average cut off after two decimals
TruncatedAverage100(sum) == (100 * sum) \div 3

\* Math.round(average * 100) / 100, kept in hundredths
RoundedAverage100(sum) == (200 * sum + 3) \div 6

gradeLesson(args) ==
  LET vocabScore == NumberOr0(args.vocabulary_score)
      grammarScore == NumberOr0(args.grammar_score)
      fluencyScore == NumberOr0(args.fluency_score)
  IN [ok |-> TRUE,
      score100 |-> RoundedAverage100(vocabScore + grammarScore + fluencyScore),
      vocabulary_score |-> vocabScore,
      grammar_score |-> grammarScore,
      fluency_score |-> fluencyScore,
      notes |-> IF args.notes.t = "string" THEN args.notes.s ELSE "stub"]

\* a quiz that takes the scenario id whenever the session has one
triggerQuizOfScenario(args, scenarioId) ==
  [ok |-> TRUE,
   quiz |-> [lesson_id |-> IF scenarioId # "" THEN scenarioId
                           ELSE args.lesson_id.s,
             focus |-> IF args.focus.t = "string"
                       THEN args.focus.s ELSE "vocabulary"]]

triggerQuiz(args, scenarioId) ==
  [ok |-> TRUE,
   quiz |-> [lesson_id |-> IF args.lesson_id.t = "string"
                           THEN args.lesson_id.s ELSE scenarioId,
             focus |-> IF args.focus.t = "string"
                       THEN args.focus.s ELSE "vocabulary"]]

\* the two tools read properties of args: a TypeError when args is null
executeToolThrows(name, args) ==
  name \in {"grade_lesson", "trigger_quiz"} /\ args.k = "null"

\* a dispatch that falls back on the quiz tool for any other name
executeToolFallsBack(name, args, scenarioId) ==
  CASE name = "grade_lesson" -> gradeLesson(args)
    [] OTHER -> triggerQuiz(args, scenarioId)

\* the JSON text of the result, kept as the result it serialises
executeTool(name, args, scenarioId) ==
  CASE name = "grade_lesson" -> gradeLesson(args)
    [] name = "trigger_quiz" -> triggerQuiz(args, scenarioId)
    [] OTHER -> [ok |-> FALSE, error |-> <<"Unknown tool: ", name>>]

\* ------------------------------------------------------------------------
\* workers/realtime/src/scenarios.ts
\* ------------------------------------------------------------------------

\* keys of scenarioMap
ScenarioCatalog == {"a1_taxi_bogota"}

\* scenarioMap is an object literal: reading a key it does not own finds the
\* members it inherits from Object.prototype
ObjectPrototypeKeys ==
  { "constructor", "__proto__", "hasOwnProperty", "isPrototypeOf",
    "propertyIsEnumerable", "toLocaleString", "toString", "valueOf",
    "__defineGetter__", "__defineSetter__", "__lookupGetter__",
    "__lookupSetter__" }

\* scenarioMap[id]: the scenario of the catalog, an inherited member of the
\* object (truthy, but no scenario), or undefined
getScenario(id) ==
  IF id \in ScenarioCatalog \cup ObjectPrototypeKeys
  THEN [found |-> TRUE, id |-> id]
  ELSE [found |-> FALSE, id |-> ""]

\* ------------------------------------------------------------------------
\* Messages the session makes itself
\* ------------------------------------------------------------------------

\* a message as it leaves the session: the data handed to send()
Relayed(data) == [kind |-> "relayed", data |-> data]
Made(msg) == [kind |-> "made", msg |-> msg]

\* `${eventType}` of the rejected discriminant
Interpolate(x) == IF x.t = "undefined" THEN "undefined" ELSE x.v

ErrorEvent(message) == Made([type |-> "error", message |-> message])
NotAllowedError(eventType) ==
  ErrorEvent(<<"Event type not allowed: ", Interpolate(eventType)>>)
FunctionCallOutput(callId, output) ==
  Made([type |-> "conversation.item.create",
        item |-> [type |-> "function_call_output", call_id |-> callId,
                  output |-> output]])
ResponseCreate == Made([type |-> "response.create"])
SessionUpdate(scenario) ==
  Made([type |-> "session.update", scenario |-> scenario.id])
OpeningMessage(scenario) ==
  Made([type |-> "conversation.item.create",
        item |-> [type |-> "message", role |-> "assistant",
                  opening_line_of |-> scenario.id]])
ParseFailure ==
  [ok |-> FALSE, error |-> <<"Failed to parse tool arguments: ", "SyntaxError">>]

\* ------------------------------------------------------------------------
\* State of one RealtimeSession
\* ------------------------------------------------------------------------

VARIABLES
  pc,                \* position of fetch(): "idle", "awaitUpstream", "returned"
  response,          \* what fetch() of the session returned last: 0
                     \* (nothing yet), 101, 400, 426, 500 (it threw)
  scenarioId,        \* this.scenarioId
  clientWs,          \* this.clientWs: "null" or "set"
  upstreamWs,        \* this.upstreamWs: "null" or "set"
  clientReady,       \* readyState of the server side of the client socket
  upstreamReady,     \* readyState of the upstream socket
  listening,         \* the client message/close/error listeners are attached
  clientCloseCode,   \* code the session closed the client socket with, or 0
  upstreamCloseCode, \* code the session closed the upstream socket with, or 0
  pendingToolCalls,  \* this.pendingToolCalls: call id -> {name, argFragments}
  sentUp,            \* what the last step sent upstream, in order
  sentCl,            \* what the last step sent to the client, in order
  last,              \* the event the last step handled
  done,              \* locals of the last onToolCallDone
  arrived,           \* per call id seen since the mapping was last released:
                     \* the deltas received since the id was last completed,
                     \* in order, whether it was completed before, and the
                     \* last name a delta carried for it
  allowedOrigins,    \* env.ALLOWED_ORIGINS: the listed origins ("" is <<>>)
  served,            \* the request the session was sent last
  contacted,         \* fetch() of the session instance has been invoked
  upstreamLog,       \* the first messages the session sent upstream, in order
  orphaned,          \* sockets of an earlier request that were open when a
                     \* later request replaced them in clientWs / upstreamWs
  calls,             \* the fetch() calls that made sockets: the scenario the
                     \* latest one holds in its closures, and the sockets
                     \* and closures of the one before it
  history,           \* what the two peers sent and what was sent to them,
                     \* in order, for the first cap messages received
  applied,           \* the last direct call of a function of tools.ts or
                     \* scenarios.ts, with its result
  hook,              \* the refs and state of one useRealtime hook in the
                     \* browser, with the sockets it has created
  worker             \* the request the worker answered in the last step, with
                     \* its answer

vars == <<pc, response, scenarioId, clientWs, upstreamWs, clientReady,
          upstreamReady, listening, clientCloseCode, upstreamCloseCode,
          pendingToolCalls, sentUp, sentCl, last, done, arrived,
          allowedOrigins, served, contacted, upstreamLog, orphaned, calls, history,
          applied, hook, worker>>

\* readyState: "NONE" before the socket exists; "CLOSING" once the socket
\* has failed or close() was called and its close event is still to come;
\* "CLOSED" after the close event
ReadyStates == {"NONE", "CONNECTING", "OPEN", "CLOSING", "CLOSED"}

EmptyMap == [id \in {} |-> [name |-> "", argFragments |-> <<>>]]

\* invoked: executeTool was called (with toolName, the parsed argsString
\* and this.scenarioId)
NoDone == [ran |-> FALSE, callId |-> "", hasEntry |-> FALSE,
           entryName |-> "", argsString |-> <<>>, toolName |-> "",
           parsed |-> FALSE, invoked |-> FALSE, threw |-> FALSE]

\* the event a step handled: the data, whether the two sockets were open
\* when it arrived, whether the handler ended in an exception and, for a
\* completion event, the deltas that had arrived for its call id
NoEvent(op) == [op |-> op, data |-> Binary, upstreamOpen |-> FALSE,
                clientOpen |-> FALSE, threw |-> FALSE, received |-> <<>>]

NothingArrived ==
  [id \in {} |-> [deltas |-> <<>>, completed |-> FALSE, named |-> ""]]

NoOrphans == [client |-> FALSE, upstream |-> FALSE]

\* no request served yet
NoRequest == [method |-> "", path |-> <<>>, upgrade |-> Undef, origin |-> Undef,
              scenario |-> Undef]

\* no fetch() call has made sockets.  Of the latest call: the scenario in
\* its closures and, for each of its sockets, whether its error event has
\* fired and its close event is still to come.
\* earlier lists the calls before it, the latest first; of each: the scenario
\* in its closures, the readyState of its two sockets, whether its client
\* listeners are attached, whether it still awaits connectUpstream, the
\* codes its sockets were closed with by the session, and the same about
\* the error events of its sockets
NoCalls ==
  [scenario |-> "", clientErrored |-> FALSE, upstreamErrored |-> FALSE,
   earlier |-> <<>>]

\* the last step was not an answer of the worker.  In an answer, status is
\* 0 while the answer is the one of a session; session tells whether the
\* request was handed to the session instance that is followed here
\* ("followed"), to another instance ("other"), or to none
NoAnswer == [request |-> NoRequest, status |-> 0, session |-> "none"]

\* a history that has room for cap received messages
NoHistory(cap) ==
  [cap |-> cap, fromClient |-> <<>>, fromUpstream |-> <<>>,
   toUpstream |-> <<>>, toClient |-> <<>>]

NothingApplied ==
  [fn |-> "none", name |-> "", args |-> EmptyArgs, scenarioId |-> "",
   threw |-> FALSE, result |-> [ok |-> FALSE]]

\* ------------------------------------------------------------------------
\* apps/web: the useRealtime hook
\* ------------------------------------------------------------------------

MAX_DEBUG_EVENTS == 50

CHUNK_SAMPLES == 480

\* a slice that keeps the first n elements
SliceFirst(list, n) ==
  IF Len(list) <= n THEN list ELSE SubSeq(list, 1, n)

\* next.slice(-n): the last n elements
SliceLast(list, n) ==
  IF Len(list) <= n THEN list ELSE SubSeq(list, Len(list) - n + 1, Len(list))

\* the updater of addEvent: [...prev, event], cut to MAX_DEBUG_EVENTS
addEvent(prev, event) ==
  LET next == Append(prev, event)
  IN IF Len(next) > MAX_DEBUG_EVENTS THEN SliceLast(next, MAX_DEBUG_EVENTS)
     ELSE next

\* data.subarray(from, to) with both ends counted from 0
subarray(data, from, to) == SubSeq(data, from + 1, to)

Min(a, b) == IF a <= b THEN a ELSE b

\* the loop of processWorkletData from position offset of data: buffer is
\* the part of pcmBufferRef.current below pcmBufferOffsetRef.current (the
\* rest of the array is overwritten before it is read), chunks are the
\* buffers handed to sendAudioChunk, in order
RECURSIVE processWorkletData(_, _, _, _)
processWorkletData(data, offset, buffer, chunks) ==
  IF offset >= Len(data) THEN [buffer |-> buffer, chunks |-> chunks]
  ELSE
    LET remaining == CHUNK_SAMPLES - Len(buffer)
        available == Len(data) - offset
        toCopy == Min(remaining, available)
        filled == buffer \o subarray(data, offset, offset + toCopy)
    IN IF Len(filled) = CHUNK_SAMPLES
       THEN processWorkletData(data, offset + toCopy, <<>>,
                               Append(chunks, filled))
       ELSE processWorkletData(data, offset + toCopy, filled, chunks)

\* int16ToBase64: the bytes of the samples as the Int16Array holds them (two's
\* complement, low byte first), which btoa then writes in base64
int16ToBytes(samples) ==
  [i \in 1..(2 * Len(samples)) |->
     IF i % 2 = 1 THEN (samples[(i + 1) \div 2] % 65536) % 256
     ELSE (samples[i \div 2] % 65536) \div 256]

AudioAppend(samples) ==
  [type |-> "input_audio_buffer.append", audio |-> int16ToBytes(samples)]

\* the value of the n-th sample the microphone delivers: PCM16 is signed
Sample(n) == IF n % 2 = 0 THEN -n ELSE n

\* the hook after its first render: no socket, nothing buffered, no
\* microphone.  sockets holds the readyState of every socket the hook has
\* created, errored the sockets whose error event has fired, wsRef the index
\* of the one wsRef.current refers to (0 for null), clock counts the events
\* added (their timestamps).  startPc tells of every call of startMic where
\* it is waiting ("none" when it has ended), and ctxLive whether the
\* AudioContext it made is there and not closed.  audioCtx and worklet are
\* the calls that made what audioCtxRef.current and
\* workletNodeRef.current refer to (0 for null), feeding the calls whose
\* worklet is connected, with its onmessage handler, to a context that is
\* not closed.  captured counts the samples the worklets have delivered
\* (the n-th has the value Sample(n)), audio holds the
\* input_audio_buffer.append events sent on the socket, by sendAudioChunk
\* or by sendEvent, sent the events sendEvent sent, discarded the numbers
\* of the samples that were in the buffer when it was reset, and
\* openThroughout tells that every frame so
\* far was processed while wsRef.current was OPEN
HookInit ==
  [wsRef |-> 0, sockets |-> <<>>, errored |-> {}, connected |-> FALSE,
   recentEvents |-> <<>>, clock |-> 0,
   audioCtx |-> 0, worklet |-> 0, ctxLive |-> <<>>, feeding |-> {},
   startPc |-> <<>>, stops |-> 0,
   pcmBuffer |-> <<>>, chunksSent |-> 0, captured |-> 0, audio |-> <<>>,
   sent |-> <<>>, discarded |-> {}, openThroughout |-> TRUE,
   transcript |-> <<>>]

\* the session instance on its own, before its first request
InitSession ==
  /\ pc = "idle"
  /\ response = 0
  /\ scenarioId = ""
  /\ clientWs = "null"
  /\ upstreamWs = "null"
  /\ clientReady = "NONE"
  /\ upstreamReady = "NONE"
  /\ listening = FALSE
  /\ clientCloseCode = 0
  /\ upstreamCloseCode = 0
  /\ pendingToolCalls = EmptyMap
  /\ sentUp = <<>>
  /\ sentCl = <<>>
  /\ last = NoEvent("init")
  /\ done = NoDone
  /\ arrived = NothingArrived
  /\ served = NoRequest
  /\ contacted = FALSE
  /\ upstreamLog = <<>>
  /\ orphaned = NoOrphans
  /\ calls = NoCalls
  /\ worker = NoAnswer
  /\ applied = NothingApplied
  /\ hook = HookInit

\* a deployment without ALLOWED_ORIGINS
Init == InitSession /\ allowedOrigins = <<>> /\ history = NoHistory(0)

\* ------------------------------------------------------------------------
\* Helpers of the class
\* ------------------------------------------------------------------------

UpstreamIsOpen == upstreamWs = "set" /\ upstreamReady = "OPEN"
ClientIsOpen == clientWs = "set" /\ clientReady = "OPEN"

\* sendUpstream / sendClient: the messages go out only on an OPEN socket
sendUpstream(msgs) == IF UpstreamIsOpen THEN msgs ELSE <<>>
sendClient(msgs) == IF ClientIsOpen THEN msgs ELSE <<>>

\* WebSocket.close(code) of the Workers runtime the session runs in (it
\* makes its sockets with WebSocketPair and accept()): the reserved codes
\* are refused with an exception, 1011 is a code the session itself uses
CloseCodeAccepted(code) ==
  code >= 1000 /\ code < 5000 /\ code \notin {1005, 1006, 1015}

\* number of messages onUpstreamOpen sends
HandshakeLength == 3

\* a socket that delivers what is sent last first
WireReversed(sent, msgs) == msgs \o sent

\* send() on a socket: the messages follow what was sent before
Wire(sent, msgs) == sent \o msgs

\* the history after a step that received data from source ("client",
\* "upstream" or "none") and sent up upstream and cl to the client
Recorded(h, source, data, up, cl) ==
  IF Len(h.fromClient) + Len(h.fromUpstream) >= h.cap THEN h
  ELSE [h EXCEPT
          !.fromClient = IF source = "client" THEN Append(@, data) ELSE @,
          !.fromUpstream = IF source = "upstream" THEN Append(@, data) ELSE @,
          !.toUpstream = Wire(@, up),
          !.toClient = Wire(@, cl)]

\* the record of the first messages that went upstream, after some more
Logged(log, msgs) ==
  LET all == log \o msgs
  IN IF Len(all) <= HandshakeLength THEN all
     ELSE SubSeq(all, 1, HandshakeLength)

\* ------------------------------------------------------------------------
\* Tool call accumulation
\* ------------------------------------------------------------------------

DeltaType == "response.function_call_arguments.delta"
DoneType == "response.function_call_arguments.done"

IsType(event, type) == event.type.t = "string" /\ event.type.v = type

\* (event.name as string) || ""
NameOrEmpty(event) == IF Truthy(event.name) THEN event.name.v ELSE ""

\* if (!callId || typeof delta !== "string") return
\* a test that looks at the call id only
DeltaIgnoredWithoutIdOnly(event) == ~Truthy(event.call_id)

DeltaIgnored(event) == ~Truthy(event.call_id) \/ event.delta.t # "string"

\* an entry that keeps the name it was created with
CaptureNameNever(entry, event) == entry

\* if (event.name && typeof event.name === "string") entry.name = event.name
CaptureName(entry, event) ==
  IF Truthy(event.name) /\ event.name.t = "string"
  THEN [entry EXCEPT !.name = event.name.v]
  ELSE entry

\* onToolCallDelta: the mapping after the fragment event
onToolCallDelta(map, event) ==
  IF DeltaIgnored(event) THEN map
  ELSE
    LET callId == event.call_id.v
        entry == IF callId \in DOMAIN map THEN map[callId]
                 ELSE [name |-> NameOrEmpty(event), argFragments |-> <<>>]
        named == CaptureName(entry, event)
        pushed == [named EXCEPT !.argFragments = Append(@, event.delta.v)]
    IN [id \in DOMAIN map \cup {callId} |->
          IF id = callId THEN pushed ELSE map[id]]

\* if (!callId) return
DoneIgnored(event) == ~Truthy(event.call_id)

\* an argument string that prefers the one carried on the completion event
ArgsStringEventFirst(map, event) ==
  IF TruthyText(event.arguments) THEN event.arguments.v
  ELSE IF event.call_id.v \in DOMAIN map
       THEN Join(map[event.call_id.v].argFragments)
       ELSE <<"{", "}">>

\* entry ? entry.argFragments.join("") : (event.arguments as string) || "{}"
ArgsStringOf(map, event) ==
  IF event.call_id.v \in DOMAIN map
  THEN Join(map[event.call_id.v].argFragments)
  ELSE IF TruthyText(event.arguments) THEN event.arguments.v
       ELSE <<"{", "}">>

\* a tool name that prefers the one carried on the completion event
ToolNameEventFirst(map, event) ==
  IF NameOrEmpty(event) # "" THEN NameOrEmpty(event)
  ELSE IF event.call_id.v \in DOMAIN map THEN map[event.call_id.v].name
       ELSE ""

\* entry?.name || name
ToolNameOf(map, event) ==
  IF event.call_id.v \in DOMAIN map /\ map[event.call_id.v].name # ""
  THEN map[event.call_id.v].name
  ELSE NameOrEmpty(event)

\* a completion that leaves the entry in the mapping
DeleteNothing(map, callId) == map

\* a delete that empties the mapping
DeleteEverything(map, callId) == EmptyMap

\* this.pendingToolCalls.delete(callId)
DeleteEntry(map, callId) == [id \in DOMAIN map \ {callId} |-> map[id]]

\* a failure report that is not followed by a request to continue
onParseFailureNoContinuation(callId) ==
  <<FunctionCallOutput(callId, ParseFailure)>>

\* the catch of JSON.parse(argsString): the failure as the call's output,
\* then response.create
onParseFailure(callId) ==
  <<FunctionCallOutput(callId, ParseFailure), ResponseCreate>>

\* the result of executeTool as the call's output, then response.create
onToolResult(callId, output) ==
  <<FunctionCallOutput(callId, output), ResponseCreate>>

\* onToolCallDone: the mapping afterwards, the messages handed to
\* sendUpstream, whether executeTool threw, and the locals
onToolCallDone(map, event, scenario) ==
  IF DoneIgnored(event)
  THEN [map |-> map, out |-> <<>>, threw |-> FALSE, locals |-> NoDone]
  ELSE
    LET callId == event.call_id.v
        hasEntry == callId \in DOMAIN map
        argsString == ArgsStringOf(map, event)
        toolName == ToolNameOf(map, event)
        deleted == DeleteEntry(map, callId)
        parses == ~ArgsParseThrows(argsString)
        args == ArgsParse(argsString)
        throws == parses /\ executeToolThrows(toolName, args)
        locals == [ran |-> TRUE, callId |-> callId, hasEntry |-> hasEntry,
                   entryName |-> IF hasEntry THEN map[callId].name ELSE "",
                   argsString |-> argsString, toolName |-> toolName,
                   parsed |-> parses, invoked |-> parses, threw |-> throws]
    IN [map |-> deleted,
        out |-> IF ~parses THEN onParseFailure(callId)
                ELSE IF throws THEN <<>>
                ELSE onToolResult(callId, executeTool(toolName, args, scenario)),
        threw |-> throws,
        locals |-> locals]

\* number of fragments held by the mapping
RECURSIVE FragmentCount(_, _)
FragmentCount(map, ids) ==
  IF ids = {} THEN 0
  ELSE LET id == CHOOSE x \in ids : TRUE
       IN Len(map[id].argFragments) + FragmentCount(map, ids \ {id})

\* ------------------------------------------------------------------------
\* Inputs
\* ------------------------------------------------------------------------

\* url.pathname, cut into pieces: "/api/health" is <<"/api", "/health">>
WsPath == <<"/ws">>
HealthPath == <<"/api", "/health">>
ScenariosPath == <<"/api", "/scenarios">>

\* values of the Upgrade header: absent, empty, the protocol in two
\* spellings, and another protocol
UpgradeHeaders ==
  {Undef, Str(""), Str("websocket"), Str("WebSocket"), Str("h2c")}

\* upgradeHeader.toLowerCase(), for the values of UpgradeHeaders
ToLowerCase(s) == IF s = "WebSocket" THEN "websocket" ELSE s

\* the negation of
\* !upgradeHeader || upgradeHeader.toLowerCase() !== "websocket"
IsWebSocketUpgrade(request) ==
  Truthy(request.upgrade) /\ ToLowerCase(request.upgrade.v) = "websocket"

\* a request to the session: the Upgrade header and the value of the
\* scenario query parameter (undefined when missing)
Requests ==
  [method : {"GET"}, path : {WsPath}, upgrade : UpgradeHeaders,
   origin : {Undef},
   scenario : {Undef, Str(""), Str("a1_taxi_bogota"), Str("b2_hotel_madrid")}]

ClientObject(type) == Obj(type, Undef, Undef, UndefText, UndefText)

\* discriminants outside the whitelist: missing, empty, not a string,
\* unknown, and one that differs from a whitelisted one in case only
RejectedTypes ==
  { Undef, Str(""), Num, Str("session.delete"), Str("Session.update") }

ClientData ==
  { Binary, Raw(Garbage, FALSE), Raw(JsonNull, TRUE), Raw(JsonScalar, TRUE),
    Raw(ClientObject(Str("response.create")), FALSE) }
  \cup { Raw(ClientObject(type), TRUE) : type \in RejectedTypes }
  \cup { Raw(ClientObject(Str(type)), TRUE) :
           type \in ALLOWED_CLIENT_EVENT_TYPES }

CallIds == {"c1", "c2"}

DeltaEvent(call_id, name, delta) ==
  Obj(Str(DeltaType), call_id, name, delta, UndefText)
DoneEvent(call_id, name, arguments) ==
  Obj(Str(DoneType), call_id, name, UndefText, arguments)

DeltaEvents ==
  { DeltaEvent(Str("c1"), name, Text(<<tok>>)) :
      name \in {Undef, Str("grade_lesson")}, tok \in {"{", "}"} }
  \cup { DeltaEvent(Str("c1"), Str("trigger_quiz"), Text(<<"}">>)),
         DeltaEvent(Str("c2"), Undef, Text(<<"null">>)),
         DeltaEvent(Undef, Undef, Text(<<"{">>)),
         DeltaEvent(Str(""), Str("grade_lesson"), Text(<<"{">>)),
         DeltaEvent(Str("c1"), Undef, UndefText) }

DoneEvents ==
  { DoneEvent(Str("c1"), Undef, UndefText),
    DoneEvent(Str("c1"), Undef, Text(<<"null">>)),
    DoneEvent(Str("c1"), Str("grade_lesson"), UndefText),
    DoneEvent(Str("c1"), Str("grade_lesson"), Text(<<"null">>)),
    DoneEvent(Str("c1"), Str("grade_lesson"), Text(<<>>)),
    DoneEvent(Str("c1"), Str("nope"), Text(<<"{">>)),
    DoneEvent(Str("c1"), Str("nope"), Text(<<"7">>)),
    DoneEvent(Str("c2"), Undef, UndefText),
    DoneEvent(Str("c2"), Str("trigger_quiz"), Text(<<"{", "}">>)),
    DoneEvent(Undef, Str("grade_lesson"), Text(<<"{", "}">>)) }

UpstreamData ==
  { Binary, Raw(Garbage, FALSE), Raw(JsonNull, TRUE), Raw(JsonScalar, TRUE),
    Raw(ClientObject(Undef), TRUE),
    Raw(ClientObject(Str("response.done")), TRUE),
    Raw(ClientObject(Str("response.done")), FALSE) }
  \cup { Raw(e, TRUE) : e \in DeltaEvents \cup DoneEvents }

\* close codes a peer closes with: normal, none received, abnormal, error
CloseCodes == {1000, 1005, 1006, 1011}

\* ------------------------------------------------------------------------
\* fetch() and the upstream handshake
\* ------------------------------------------------------------------------

Quiet == sentUp' = <<>> /\ sentCl' = <<>> /\ done' = NoDone

\* a request that gets past the two checks of fetch()
MakesSockets(request) ==
  /\ IsWebSocketUpgrade(request)
  /\ getScenario(IF Truthy(request.scenario) THEN request.scenario.v
                 ELSE "").found

\* earlier calls that are followed at a time
MaxEarlier == 1

\* the calls whose sockets can still deliver an event
StillLive(earlier) ==
  SelectSeq(earlier,
            LAMBDA call : call.clientReady # "CLOSED"
                            \/ call.upstreamReady # "CLOSED")

\* the latest call that made sockets, as the next one leaves it behind
Replaced ==
  [scenario |-> calls.scenario, clientReady |-> clientReady,
   upstreamReady |-> upstreamReady, listening |-> listening,
   pending |-> (pc = "awaitUpstream"), clientCloseCode |-> clientCloseCode,
   upstreamCloseCode |-> upstreamCloseCode,
   clientErrored |-> calls.clientErrored,
   upstreamErrored |-> calls.upstreamErrored]

\* the body of fetch(), up to the await of connectUpstream().  The new
\* sockets replace what clientWs and upstreamWs referred to: nothing closes
\* the sockets of an earlier request, whose listeners stay attached; the
\* new server socket has no listeners yet.  A call that returns at once
\* leaves a call that awaits its handshake waiting.  The calls that made
\* sockets are followed while a socket of theirs is not closed, MaxEarlier
\* of them beside the latest
serve(request) ==
  /\ (MakesSockets(request) /\ clientReady # "NONE") =>
       Len(StillLive(calls.earlier)) < MaxEarlier
  /\ last' = NoEvent("fetch")
  /\ Quiet
  /\ served' = request
  /\ contacted' = TRUE
  /\ UNCHANGED <<pendingToolCalls, arrived, allowedOrigins, upstreamLog,
                 history, applied, hook>>
  /\ IF ~IsWebSocketUpgrade(request)
     THEN /\ response' = 426
          /\ pc' = IF pc = "awaitUpstream" THEN pc ELSE "returned"
          /\ UNCHANGED <<scenarioId, clientWs, upstreamWs, clientReady,
                         upstreamReady, listening, clientCloseCode,
                         upstreamCloseCode, orphaned, calls>>
     ELSE LET id == IF Truthy(request.scenario) THEN request.scenario.v ELSE ""
          IN /\ scenarioId' = id
             /\ IF ~getScenario(id).found
                THEN /\ response' = 400
                     /\ pc' = IF pc = "awaitUpstream" THEN pc ELSE "returned"
                     /\ UNCHANGED <<clientWs, upstreamWs, clientReady,
                                    upstreamReady, listening, clientCloseCode,
                                    upstreamCloseCode, orphaned, calls>>
                ELSE /\ orphaned' =
                          [client |-> orphaned.client \/ clientReady = "OPEN",
                           upstream |-> orphaned.upstream
                                          \/ upstreamReady = "OPEN"]
                     /\ calls' =
                          [scenario |-> id,
                           clientErrored |-> FALSE,
                           upstreamErrored |-> FALSE,
                           earlier |->
                             IF clientReady = "NONE" THEN <<>>
                             ELSE <<Replaced>> \o StillLive(calls.earlier)]
                     /\ clientWs' = "set"
                     /\ clientReady' = "OPEN"
                     /\ upstreamWs' = "set"
                     /\ upstreamReady' = "CONNECTING"
                     /\ listening' = FALSE
                     /\ clientCloseCode' = 0
                     /\ upstreamCloseCode' = 0
                     /\ pc' = "awaitUpstream"
                     /\ response' = 0

\* fetch() on a fresh instance
fetch(request) == ~contacted /\ serve(request) /\ worker' = NoAnswer

\* fetch() on an instance that has been sent a request before
fetchAgain(request) == contacted /\ serve(request) /\ worker' = NoAnswer

\* a handshake that asks for a response before it has configured the session
onUpstreamOpenResponseFirst(scenario) ==
  <<ResponseCreate, SessionUpdate(scenario), OpeningMessage(scenario)>>

\* the three messages of onUpstreamOpen
onUpstreamOpen(scenario) ==
  <<SessionUpdate(scenario), OpeningMessage(scenario), ResponseCreate>>

\* upstream "open" event: onUpstreamOpen, resolve, and the rest of fetch()
UpstreamOpen ==
  /\ pc = "awaitUpstream"
  /\ upstreamReady = "CONNECTING"
  /\ upstreamReady' = "OPEN"
  /\ sentUp' = IF upstreamWs = "set"
               THEN onUpstreamOpen(getScenario(calls.scenario)) ELSE <<>>
  /\ upstreamLog' = Logged(upstreamLog, sentUp')
  /\ history' = Recorded(history, "none", Binary, sentUp', <<>>)
  /\ sentCl' = <<>>
  /\ done' = NoDone
  /\ listening' = TRUE
  /\ response' = 101
  /\ pc' = "returned"
  /\ last' = NoEvent("upstreamOpen")
  /\ worker' = NoAnswer
  /\ UNCHANGED <<scenarioId, clientWs, upstreamWs, clientReady,
                 clientCloseCode, upstreamCloseCode, pendingToolCalls, arrived,
                 allowedOrigins, orphaned, calls, applied, hook,
                 served, contacted>>

\* server.send(JSON.stringify({type: "error", error: {message: msg}}))
ConnectFailureNotice ==
  << ErrorEvent(<<"Upstream WebSocket connection failed">>) >>

\* upstream "error" event before "open": reject, and the catch of fetch()
UpstreamConnectError ==
  /\ pc = "awaitUpstream"
  /\ upstreamReady = "CONNECTING"
  /\ upstreamReady' = "CLOSING"
  /\ calls' = [calls EXCEPT !.upstreamErrored = TRUE]
  /\ pc' = "returned"
  /\ last' = [NoEvent("connectError") EXCEPT !.threw = (clientReady # "OPEN")]
  /\ sentUp' = <<>>
  /\ done' = NoDone
  /\ IF clientReady = "OPEN"
     THEN /\ sentCl' = ConnectFailureNotice
          /\ clientReady' = "CLOSING"
          /\ clientCloseCode' = 1011
          /\ response' = 101
     ELSE \* server.send() on a socket that is no longer open throws
          /\ sentCl' = <<>>
          /\ response' = 500
          /\ UNCHANGED <<clientReady, clientCloseCode>>
  /\ history' = Recorded(history, "none", Binary, <<>>, sentCl')
  /\ worker' = NoAnswer
  /\ UNCHANGED <<scenarioId, clientWs, upstreamWs, listening,
                 upstreamCloseCode, pendingToolCalls, arrived,
                 allowedOrigins, orphaned, applied, hook,
                 served, contacted, upstreamLog>>

\* ------------------------------------------------------------------------
\* Teardown
\* ------------------------------------------------------------------------

\* a socket event, with the state of the two sockets when it arrived
SocketEvent(op) ==
  [NoEvent(op) EXCEPT !.upstreamOpen = UpstreamIsOpen,
                      !.clientOpen = ClientIsOpen]

cleanup ==
  /\ upstreamReady' = IF UpstreamIsOpen THEN "CLOSING" ELSE upstreamReady
  /\ upstreamCloseCode' = IF UpstreamIsOpen THEN 1000 ELSE upstreamCloseCode
  /\ upstreamWs' = "null"
  /\ clientWs' = "null"
  /\ pendingToolCalls' = EmptyMap
  /\ arrived' = NothingArrived

\* client "close" event
ClientClose ==
  /\ clientReady \in {"OPEN", "CLOSING"}
  /\ clientReady' = "CLOSED"
  /\ calls' = [calls EXCEPT !.clientErrored = FALSE]
  /\ last' = SocketEvent("clientClose")
  /\ Quiet
  /\ IF listening THEN cleanup
     ELSE UNCHANGED <<upstreamReady, upstreamCloseCode, upstreamWs, clientWs,
                      pendingToolCalls, arrived>>
  /\ worker' = NoAnswer
  /\ UNCHANGED <<pc, response, scenarioId, listening, clientCloseCode,
                 allowedOrigins, orphaned, history,
                 applied, hook, served, contacted, upstreamLog>>

\* client "error" event, once per socket; the close event of the socket
\* follows.  The listener has no condition of its own: the event also
\* reaches a socket the session has closed
ClientError ==
  /\ ~calls.clientErrored
  /\ clientReady = "OPEN" \/ (clientReady = "CLOSING" /\ clientCloseCode # 0)
  /\ clientReady' = "CLOSING"
  /\ calls' = [calls EXCEPT !.clientErrored = TRUE]
  /\ last' = SocketEvent("clientError")
  /\ Quiet
  /\ IF listening THEN cleanup
     ELSE UNCHANGED <<upstreamReady, upstreamCloseCode, upstreamWs, clientWs,
                      pendingToolCalls, arrived>>
  /\ worker' = NoAnswer
  /\ UNCHANGED <<pc, response, scenarioId, listening, clientCloseCode,
                 allowedOrigins, orphaned, history,
                 applied, hook, served, contacted, upstreamLog>>

\* upstream "error" event after "open", once per socket: logged, reject()
\* has no effect any more; the close event of the socket follows
UpstreamError ==
  /\ ~calls.upstreamErrored
  /\ upstreamReady = "OPEN"
       \/ (upstreamReady = "CLOSING" /\ upstreamCloseCode # 0)
  /\ upstreamReady' = "CLOSING"
  /\ calls' = [calls EXCEPT !.upstreamErrored = TRUE]
  /\ last' = SocketEvent("upstreamError")
  /\ Quiet
  /\ worker' = NoAnswer
  /\ UNCHANGED <<pc, response, scenarioId, clientWs, upstreamWs, clientReady,
                 listening, clientCloseCode, upstreamCloseCode,
                 pendingToolCalls, arrived, allowedOrigins, orphaned,
                 history, applied, hook, served, contacted,
                 upstreamLog>>

\* a close listener that also settles the promise of connectUpstream
SettledByCloseAlways == TRUE

\* the close listener calls neither resolve nor reject
SettledByClose == FALSE

\* upstream "close" event: the close is forwarded to an open client socket
UpstreamClose(code) ==
  /\ upstreamReady \in {"CONNECTING", "OPEN", "CLOSING"}
  /\ upstreamReady' = "CLOSED"
  /\ calls' = [calls EXCEPT !.upstreamErrored = FALSE]
  /\ pc' = IF SettledByClose THEN "returned" ELSE pc
  /\ response' = IF SettledByClose /\ pc = "awaitUpstream" THEN 101
                 ELSE response
  /\ last' = [SocketEvent("upstreamClose") EXCEPT
                !.threw = (ClientIsOpen /\ ~CloseCodeAccepted(code))]
  /\ Quiet
  /\ IF ClientIsOpen /\ CloseCodeAccepted(code)
     THEN clientReady' = "CLOSING" /\ clientCloseCode' = code
     ELSE UNCHANGED <<clientReady, clientCloseCode>>
  /\ worker' = NoAnswer
  /\ UNCHANGED <<scenarioId, clientWs, upstreamWs, listening,
                 upstreamCloseCode, pendingToolCalls, arrived, allowedOrigins,
                 orphaned, history, applied, hook, served, contacted,
                 upstreamLog>>

\* ------------------------------------------------------------------------
\* Client -> upstream relay
\* ------------------------------------------------------------------------

\* a verdict that stops relaying once an event has been rejected
ClientVerdictOneStrike(data) ==
  CASE ~UpstreamIsOpen \/ (last.op = "client" /\ sentCl # <<>>) -> "closed"
    [] ~data.text -> "binary"
    [] JsonParseThrows(data) -> "malformed"
    [] JsonParse(data).k = "null" -> "throws"
    [] ~Truthy(JsonParse(data).type)
         \/ ~IncludesAllowed(JsonParse(data).type) -> "rejected"
    [] OTHER -> "forwarded"

\* a verdict that answers unparseable text like a rejected event
ClientVerdictLoud(data) ==
  CASE ~UpstreamIsOpen -> "closed"
    [] ~data.text -> "binary"
    [] JsonParseThrows(data) -> "rejected"
    [] JsonParse(data).k = "null" -> "throws"
    [] ~Truthy(JsonParse(data).type)
         \/ ~IncludesAllowed(JsonParse(data).type) -> "rejected"
    [] OTHER -> "forwarded"

\* what handleClientMessage does with the data: "closed" (upstream not
\* open), "binary", "malformed", "throws" (JSON null: reading .type throws),
\* "rejected" or "forwarded"
ClientVerdict(data) ==
  CASE ~UpstreamIsOpen -> "closed"
    [] ~data.text -> "binary"
    [] JsonParseThrows(data) -> "malformed"
    [] JsonParse(data).k = "null" -> "throws"
    [] ~Truthy(JsonParse(data).type)
         \/ ~IncludesAllowed(JsonParse(data).type) -> "rejected"
    [] OTHER -> "forwarded"

\* a forward of the parsed event, serialised again
ForwardReserialized(data) == Relayed(JsonStringify(JsonParse(data)))

\* this.upstreamWs.send(data): the string as it was received
ForwardAsIs(data) == Relayed(data)

\* handleClientMessage(data), run by the message listener of a client
\* socket; op names the socket
onClientMessage(data, op) ==
  /\ LET verdict == ClientVerdict(data)
     IN /\ sentCl' = IF verdict = "rejected"
                     THEN sendClient(<<NotAllowedError(JsonParse(data).type)>>)
                     ELSE <<>>
        /\ sentUp' = IF verdict = "forwarded" THEN <<ForwardAsIs(data)>> ELSE <<>>
        /\ last' = [op |-> op, data |-> data,
                    upstreamOpen |-> UpstreamIsOpen,
                    clientOpen |-> ClientIsOpen,
                    threw |-> (verdict = "throws"),
                    received |-> <<>>]
  /\ done' = NoDone
  /\ upstreamLog' = Logged(upstreamLog, sentUp')
  /\ history' = Recorded(history, "client", data, sentUp', sentCl')
  /\ worker' = NoAnswer
  /\ UNCHANGED <<pc, response, scenarioId, clientWs, upstreamWs, clientReady,
                 upstreamReady, listening, clientCloseCode, upstreamCloseCode,
                 pendingToolCalls, arrived, allowedOrigins, orphaned, calls,
                 applied, hook, served, contacted>>

\* client "message" event
handleClientMessage(data) ==
  /\ listening
  /\ clientReady = "OPEN"
       \/ (clientReady = "CLOSING" /\ clientCloseCode # 0
             /\ ~calls.clientErrored)
  /\ onClientMessage(data, "client")

\* ------------------------------------------------------------------------
\* Upstream -> client relay and tool calls
\* ------------------------------------------------------------------------

\* the deltas of a call id received so far, kept beside the mapping
Arrive(log, event) ==
  LET id == event.call_id.v
      before == IF id \in DOMAIN log THEN log[id]
                ELSE [deltas |-> <<>>, completed |-> FALSE, named |-> ""]
      after == IF IsType(event, DeltaType)
               THEN [before EXCEPT
                       !.deltas = Append(@, event.delta.v),
                       !.named = IF event.name.t = "string" /\ event.name.v # ""
                                 THEN event.name.v ELSE @]
               ELSE [deltas |-> <<>>, completed |-> TRUE, named |-> ""]
  IN IF \/ IsType(event, DeltaType) /\ Truthy(event.call_id)
           /\ event.delta.t = "string"
        \/ IsType(event, DoneType) /\ Truthy(event.call_id)
     THEN [x \in DOMAIN log \cup {id} |-> IF x = id THEN after ELSE log[x]]
     ELSE log

ReceivedFor(log, event) ==
  IF event.call_id.v \in DOMAIN log THEN log[event.call_id.v].deltas ELSE <<>>

\* handleUpstreamMessage(data), run by the message listener of an upstream
\* socket; op names the socket
onUpstreamMessage(data, op) ==
  /\ LET event == JsonParse(data)
         structured == data.text /\ ~JsonParseThrows(data) /\ event.k # "null"
         isDelta == structured /\ IsType(event, DeltaType)
         isDone == structured /\ IsType(event, DoneType)
         result == onToolCallDone(pendingToolCalls, event, scenarioId)
         threw == (data.text /\ ~JsonParseThrows(data) /\ event.k = "null")
                    \/ (isDone /\ result.threw)
                    \/ (~data.text /\ clientWs = "set" /\ clientReady # "OPEN")
     IN /\ isDelta /\ ~DeltaIgnored(event) =>
             FragmentCount(pendingToolCalls, DOMAIN pendingToolCalls)
               < MaxFragments
        /\ pendingToolCalls' =
             CASE isDelta -> onToolCallDelta(pendingToolCalls, event)
               [] isDone -> result.map
               [] OTHER -> pendingToolCalls
        /\ arrived' = IF structured THEN Arrive(arrived, event) ELSE arrived
        /\ sentUp' = IF isDone THEN sendUpstream(result.out) ELSE <<>>
        /\ done' = IF isDone THEN result.locals ELSE NoDone
        /\ sentCl' =
             CASE ~data.text ->
                    IF ClientIsOpen THEN <<Relayed(data)>> ELSE <<>>
               [] ~structured \/ threw -> <<>>
               [] OTHER -> sendClient(<<Relayed(JsonStringify(event))>>)
        /\ last' = [op |-> op, data |-> data,
                    upstreamOpen |-> UpstreamIsOpen,
                    clientOpen |-> ClientIsOpen,
                    threw |-> threw,
                    received |-> IF isDone THEN ReceivedFor(arrived, event)
                                 ELSE <<>>]
  /\ upstreamLog' = Logged(upstreamLog, sentUp')
  /\ history' = Recorded(history, "upstream", data, sentUp', sentCl')
  /\ worker' = NoAnswer
  /\ UNCHANGED <<pc, response, scenarioId, clientWs, upstreamWs, clientReady,
                 upstreamReady, listening, clientCloseCode, upstreamCloseCode,
                 allowedOrigins, orphaned, calls, applied, hook,
                 served, contacted>>

\* upstream "message" event
handleUpstreamMessage(data) ==
  /\ upstreamReady = "OPEN"
       \/ (upstreamReady = "CLOSING" /\ upstreamCloseCode # 0
             /\ ~calls.upstreamErrored)
  /\ onUpstreamMessage(data, "upstream")

\* ------------------------------------------------------------------------
\* Specification
\* ------------------------------------------------------------------------

Next ==
  \/ \E request \in Requests : fetch(request)
  \/ UpstreamOpen
  \/ UpstreamConnectError
  \/ \E data \in ClientData : handleClientMessage(data)
  \/ \E data \in UpstreamData : handleUpstreamMessage(data)
  \/ ClientClose
  \/ ClientError
  \/ UpstreamError
  \/ \E code \in CloseCodes : UpstreamClose(code)

Spec == Init /\ [][Next]_vars

\* ------------------------------------------------------------------------
\* The worker in front of the session (workers/realtime/src/index.ts)
\* ------------------------------------------------------------------------

\* isOriginAllowed: no list allows everyone; with a list, only listed origins
\* a guard that lets every origin pass
isOriginAllowedAlways(origin, allowed) == TRUE

isOriginAllowed(origin, allowed) ==
  IF allowed = <<>> THEN TRUE
  ELSE IF ~Truthy(origin) THEN FALSE
  ELSE \E i \in 1..Len(allowed) : allowed[i] = origin.v

\* the origin guards refuse a request only when it names an origin
OriginRefused(request, allowed) ==
  ~isOriginAllowed(request.origin, allowed) /\ Truthy(request.origin)

\* a scenario parameter that is never found missing
MissingScenarioNever(request) == FALSE

\* const scenarioId = url.searchParams.get("scenario") || ""; !scenarioId
MissingScenario(request) == ~Truthy(request.scenario)

\* an answer of the worker that leaves the followed session alone
Answered(request, status, session) ==
  /\ worker' = [request |-> request, status |-> status, session |-> session]
  /\ last' = NoEvent("worker")
  /\ Quiet
  /\ UNCHANGED <<pc, response, scenarioId, clientWs, upstreamWs, clientReady,
                 upstreamReady, listening, clientCloseCode, upstreamCloseCode,
                 pendingToolCalls, arrived, allowedOrigins, orphaned, calls,
                 history, applied, hook, served, contacted, upstreamLog>>

\* a response of the worker itself: no session instance is involved
Answer(request, status) == Answered(request, status, "none")

\* return stub.fetch(request): the instance is the one of the name
\* `${userId}:${scenarioId}:${Date.now()}`.  The instance that the first
\* request reaches is followed.  A later request for the same scenario
\* reaches it again when it has the same user and the same millisecond, and
\* an instance of its own, which is not followed, when it has not
HandOver(request) ==
  \/ /\ contacted => request.scenario = served.scenario
     /\ serve(request)
     /\ worker' = [request |-> request, status |-> 0,
                   session |-> "followed"]
  \/ /\ contacted
     /\ Answered(request, 0, "other")

\* pathname.startsWith(prefix)
StartsWith(path, prefix) ==
  Len(path) >= Len(prefix) /\ SubSeq(path, 1, Len(prefix)) = prefix

\* url.pathname.startsWith("/api")
IsApiPath(path) == StartsWith(path, <<"/api">>)

\* url.pathname.startsWith("/api/scenarios/")
IsScenarioPath(path) == StartsWith(path, ScenariosPath \o <<"/">>)

\* url.pathname.split("/").pop() || "": what follows the last "/"
LastSegment(path) == IF path[Len(path)] = "/" THEN "" ELSE path[Len(path)]

\* Response.json(scenario) of GET /api/scenarios/:id: the scenario of the
\* catalog is served; for an inherited member of scenarioMap (a function or
\* Object.prototype) the serialisation either gives a body or fails
ScenarioStatuses(id) ==
  IF ~getScenario(id).found THEN {404}
  ELSE IF id \in ScenarioCatalog THEN {200}
  ELSE {200, 500}

\* fetch() of the worker: preflight, origin guard of the API routes (any
\* Upgrade header switches it off), the routes, and for /ws the hand-over
\* to a session instance
workerFetch(request) ==
  IF request.method = "OPTIONS" THEN Answer(request, 204)
  ELSE IF /\ request.method = "GET"
          /\ ~Truthy(request.upgrade)
          /\ OriginRefused(request, allowedOrigins)
          /\ IsApiPath(request.path)
       THEN Answer(request, 403)
  ELSE IF request.path = HealthPath THEN Answer(request, 200)
  ELSE IF request.path = ScenariosPath THEN Answer(request, 200)
  ELSE IF IsScenarioPath(request.path)
       THEN \E status \in ScenarioStatuses(LastSegment(request.path)) :
              Answer(request, status)
  ELSE IF request.path = WsPath
       THEN IF ~IsWebSocketUpgrade(request) THEN Answer(request, 426)
            ELSE IF OriginRefused(request, allowedOrigins)
                 THEN Answer(request, 403)
            ELSE IF MissingScenario(request) THEN Answer(request, 400)
            ELSE HandOver(request)
  ELSE Answer(request, 404)

\* paths of the requests to the worker
WorkerPaths ==
  { WsPath, HealthPath, HealthPath \o <<"/">>, ScenariosPath,
    ScenariosPath \o <<"/">>,
    ScenariosPath \o <<"/", "a1_taxi_bogota">>,
    ScenariosPath \o <<"/", "nope">>,
    ScenariosPath \o <<"/", "constructor">>,
    <<"/api">>, <<"/api", "/foo">>, <<"/api", "ary">>, <<"/nowhere">> }

Origins == {Undef, Str("https://app.example"), Str("https://evil.example")}

\* requests to the worker: requests of every method for the paths beside
\* /ws, with no Upgrade header or with one; GET requests for /ws with each
\* Upgrade header, the second spelling without an Origin header; and
\* requests of the other methods for /ws
WorkerRequests ==
  [method : {"GET", "POST", "OPTIONS"}, path : WorkerPaths \ {WsPath},
   upgrade : {Undef, Str("h2c")}, origin : Origins, scenario : {Undef}]
  \cup
  { r \in [method : {"GET"}, path : {WsPath}, upgrade : UpgradeHeaders,
            origin : Origins,
            scenario : {Undef, Str(""), Str("a1_taxi_bogota"),
                        Str("b2_hotel_madrid"), Str("constructor")}] :
      r.upgrade = Str("WebSocket") => r.origin = Undef }
  \cup
  [method : {"POST", "OPTIONS"}, path : {WsPath},
   upgrade : {Undef, Str("websocket")}, origin : {Undef},
   scenario : {Str("a1_taxi_bogota")}]

\* the requests the worker is sent once it has handed one to a session: a
\* health check, an upgrade without a scenario and an upgrade with one
LaterRequests ==
  { r \in WorkerRequests :
      /\ r.method = "GET"
      /\ r.origin = Undef
      /\ \/ r.path = HealthPath /\ r.upgrade = Undef /\ r.scenario = Undef
         \/ /\ r.path = WsPath
            /\ r.upgrade = Str("websocket")
            /\ r.scenario \in {Undef, Str("a1_taxi_bogota")} }

\* values of ALLOWED_ORIGINS: not set, or one origin listed
OriginConfigs == { <<>>, <<"https://app.example">> }

\* a few messages of each kind for the sessions behind the worker
FewClientData ==
  { Raw(ClientObject(Str("response.create")), TRUE),
    Raw(ClientObject(Str("session.delete")), TRUE) }

FewUpstreamData ==
  { Raw(e, TRUE) :
      e \in { ClientObject(Str("response.done")),
              DeltaEvent(Str("c1"), Str("grade_lesson"), Text(<<"{">>)),
              DeltaEvent(Str("c1"), Undef, Text(<<"}">>)),
              DeltaEvent(Str("c2"), Undef, Text(<<"null">>)),
              DoneEvent(Str("c1"), Undef, UndefText),
              DoneEvent(Str("c2"), Undef, UndefText) } }

\* ------------------------------------------------------------------------
\* One instance that is sent more than one request
\* ------------------------------------------------------------------------

\* The worker names the instance `${userId}:${scenarioId}:${Date.now()}`:
\* two upgrade requests of one user for one scenario within a millisecond
\* reach the same instance.  The listeners of the sockets the earlier
\* request made stay attached, and what they do, they do to the sockets and
\* the mapping the session refers to now.
ReuseRequests ==
  { r \in Requests :
      r.upgrade = Str("websocket") /\ r.scenario \in {Str("a1_taxi_bogota"), Str("b2_hotel_madrid")} }

ReuseUpstreamData ==
  { Raw(DeltaEvent(Str("c1"), Str("grade_lesson"), Text(<<"{">>)), TRUE),
    Raw(DoneEvent(Str("c1"), Undef, UndefText), TRUE) }

ReuseClientData == { Raw(ClientObject(Str("response.create")), TRUE) }

\* close codes of upstream: one the client socket accepts, one it does not
ReuseCloseCodes == {1000, 1006}

\* a step of a listener of the earlier sockets that leaves the session's
\* own fields alone
EarlierOnly ==
  /\ worker' = NoAnswer
  /\ UNCHANGED <<pc, response, scenarioId, clientWs, upstreamWs, clientReady,
                 upstreamReady, listening, clientCloseCode, upstreamCloseCode,
                 pendingToolCalls, arrived, allowedOrigins, orphaned,
                 applied, hook, served, contacted>>

\* "open" event of the upstream socket of the earlier call i: onUpstreamOpen
\* sends through this.upstreamWs, resolve lets that fetch() attach its
\* listeners and return
EarlierUpstreamOpen(i) ==
  /\ calls.earlier[i].pending
  /\ calls.earlier[i].upstreamReady = "CONNECTING"
  /\ calls' = [calls EXCEPT !.earlier[i].upstreamReady = "OPEN",
                            !.earlier[i].listening = TRUE,
                            !.earlier[i].pending = FALSE]
  /\ sentUp' =
       sendUpstream(onUpstreamOpen(getScenario(calls.earlier[i].scenario)))
  /\ sentCl' = <<>>
  /\ done' = NoDone
  /\ upstreamLog' = Logged(upstreamLog, sentUp')
  /\ history' = Recorded(history, "none", Binary, sentUp', <<>>)
  /\ last' = SocketEvent("earlierUpstreamOpen")
  /\ EarlierOnly

\* "error" event of the upstream socket of the earlier call i before "open":
\* reject, and the catch of that fetch() on its own server socket
EarlierUpstreamConnectError(i) ==
  /\ calls.earlier[i].pending
  /\ calls.earlier[i].upstreamReady = "CONNECTING"
  /\ calls' =
       IF calls.earlier[i].clientReady = "OPEN"
       THEN [calls EXCEPT !.earlier[i].upstreamReady = "CLOSING",
                          !.earlier[i].upstreamErrored = TRUE,
                          !.earlier[i].pending = FALSE,
                          !.earlier[i].clientReady = "CLOSING",
                          !.earlier[i].clientCloseCode = 1011]
       ELSE [calls EXCEPT !.earlier[i].upstreamReady = "CLOSING",
                          !.earlier[i].upstreamErrored = TRUE,
                          !.earlier[i].pending = FALSE]
  /\ last' = [SocketEvent("earlierConnectError") EXCEPT
                !.threw = (calls.earlier[i].clientReady # "OPEN")]
  /\ Quiet
  /\ EarlierOnly
  /\ UNCHANGED <<upstreamLog, history>>

\* "message" event of the upstream socket of the earlier call i
EarlierUpstreamMessage(i, data) ==
  /\ LET call == calls.earlier[i]
     IN \/ call.upstreamReady = "OPEN"
        \/ /\ call.upstreamReady = "CLOSING"
           /\ call.upstreamCloseCode # 0
           /\ ~call.upstreamErrored
  /\ onUpstreamMessage(data, "earlierUpstream")

\* "message" event of the client socket of the earlier call i
EarlierClientMessage(i, data) ==
  /\ LET call == calls.earlier[i]
     IN /\ call.listening
        /\ \/ call.clientReady = "OPEN"
           \/ /\ call.clientReady = "CLOSING"
              /\ call.clientCloseCode # 0
              /\ ~call.clientErrored
  /\ onClientMessage(data, "earlierClient")

\* "close" event of the upstream socket of the earlier call i: the close is
\* forwarded to this.clientWs
EarlierUpstreamClose(i, code) ==
  /\ calls.earlier[i].upstreamReady \in {"CONNECTING", "OPEN", "CLOSING"}
  /\ calls' = [calls EXCEPT !.earlier[i].upstreamReady = "CLOSED",
                            !.earlier[i].upstreamErrored = FALSE,
                            !.earlier[i].pending = @ /\ ~SettledByClose]
  /\ last' = [SocketEvent("earlierUpstreamClose") EXCEPT
                !.threw = (ClientIsOpen /\ ~CloseCodeAccepted(code))]
  /\ Quiet
  /\ IF ClientIsOpen /\ CloseCodeAccepted(code)
     THEN clientReady' = "CLOSING" /\ clientCloseCode' = code
     ELSE UNCHANGED <<clientReady, clientCloseCode>>
  /\ worker' = NoAnswer
  /\ UNCHANGED <<pc, response, scenarioId, clientWs, upstreamWs,
                 upstreamReady, listening, upstreamCloseCode,
                 pendingToolCalls, arrived, allowedOrigins, orphaned,
                 history, applied, hook, served, contacted, upstreamLog>>

\* "error" event of the upstream socket of the earlier call i after "open":
\* logged only
EarlierUpstreamError(i) ==
  /\ LET call == calls.earlier[i]
     IN /\ ~call.upstreamErrored
        /\ \/ call.upstreamReady = "OPEN"
           \/ call.upstreamReady = "CLOSING" /\ call.upstreamCloseCode # 0
  /\ calls' = [calls EXCEPT !.earlier[i].upstreamReady = "CLOSING",
                            !.earlier[i].upstreamErrored = TRUE]
  /\ last' = SocketEvent("earlierUpstreamError")
  /\ Quiet
  /\ EarlierOnly
  /\ UNCHANGED <<upstreamLog, history>>

\* "close" or "error" event of the client socket of the earlier call i:
\* cleanup() when that fetch() has attached its listeners
EarlierClientGone(i, after, op) ==
  /\ calls' = [calls EXCEPT !.earlier[i] = after]
  /\ last' = SocketEvent(op)
  /\ Quiet
  /\ IF calls.earlier[i].listening THEN cleanup
     ELSE UNCHANGED <<upstreamReady, upstreamCloseCode, upstreamWs, clientWs,
                      pendingToolCalls, arrived>>
  /\ worker' = NoAnswer
  /\ UNCHANGED <<pc, response, scenarioId, clientReady, listening,
                 clientCloseCode, allowedOrigins, orphaned, history,
                 applied, hook, served, contacted, upstreamLog>>

EarlierClientClose(i) ==
  /\ calls.earlier[i].clientReady \in {"OPEN", "CLOSING"}
  /\ EarlierClientGone(i, [calls.earlier[i] EXCEPT !.clientReady = "CLOSED",
                                                  !.clientErrored = FALSE],
                       "earlierClientClose")

EarlierClientError(i) ==
  /\ LET call == calls.earlier[i]
     IN /\ ~call.clientErrored
        /\ \/ call.clientReady = "OPEN"
           \/ call.clientReady = "CLOSING" /\ call.clientCloseCode # 0
  /\ EarlierClientGone(i, [calls.earlier[i] EXCEPT !.clientReady = "CLOSING",
                                                  !.clientErrored = TRUE],
                       "earlierClientError")

NextReuse ==
  \/ \E request \in ReuseRequests : fetch(request)
  \/ \E request \in ReuseRequests : fetchAgain(request)
  \/ UpstreamOpen
  \/ UpstreamConnectError
  \/ \E data \in ReuseClientData : handleClientMessage(data)
  \/ \E data \in ReuseUpstreamData : handleUpstreamMessage(data)
  \/ ClientClose
  \/ ClientError
  \/ UpstreamError
  \/ \E code \in ReuseCloseCodes : UpstreamClose(code)
  \/ \E i \in DOMAIN calls.earlier : EarlierUpstreamOpen(i)
  \/ \E i \in DOMAIN calls.earlier : EarlierUpstreamConnectError(i)
  \/ \E i \in DOMAIN calls.earlier, data \in ReuseClientData :
       EarlierClientMessage(i, data)
  \/ \E i \in DOMAIN calls.earlier, data \in ReuseUpstreamData :
       EarlierUpstreamMessage(i, data)
  \/ \E i \in DOMAIN calls.earlier : EarlierClientClose(i)
  \/ \E i \in DOMAIN calls.earlier : EarlierClientError(i)
  \/ \E i \in DOMAIN calls.earlier : EarlierUpstreamError(i)
  \/ \E i \in DOMAIN calls.earlier, code \in ReuseCloseCodes :
       EarlierUpstreamClose(i, code)

SpecReuse == Init /\ [][NextReuse]_vars

\* ------------------------------------------------------------------------
\* The deployment: the worker and the session instance it reaches
\* ------------------------------------------------------------------------

\* call ids for which an instance that serves more than one upgrade is
\* sent events
MaxReuseCalls == 0

\* the call ids seen are within that bound
WithinReuse(log) == Cardinality(DOMAIN log) <= MaxReuseCalls

InitDeployment ==
  InitSession /\ allowedOrigins \in OriginConfigs /\ history = NoHistory(0)

\* the requests the worker is sent, and the events of the sockets of the
\* followed instance: those of its latest call and, once a later upgrade
\* has reached it, those of the calls before.  The runs in which the
\* instance serves more than one upgrade are explored up to MaxReuseCalls
\* call ids
NextDeployment ==
  \/ \E request \in (IF contacted THEN LaterRequests ELSE WorkerRequests) :
       /\ workerFetch(request)
       /\ (contacted /\ worker'.session = "followed") => WithinReuse(arrived)
  \/ UpstreamOpen
  \/ UpstreamConnectError
  \/ \E data \in FewClientData : handleClientMessage(data)
  \/ \E data \in FewUpstreamData :
       /\ handleUpstreamMessage(data)
       /\ calls.earlier # <<>> => WithinReuse(arrived')
  \/ ClientClose
  \/ ClientError
  \/ UpstreamError
  \/ \E code \in CloseCodes : UpstreamClose(code)
  \/ \E i \in DOMAIN calls.earlier : EarlierUpstreamOpen(i)
  \/ \E i \in DOMAIN calls.earlier : EarlierUpstreamConnectError(i)
  \/ \E i \in DOMAIN calls.earlier, data \in ReuseClientData :
       EarlierClientMessage(i, data)
  \/ \E i \in DOMAIN calls.earlier, data \in FewUpstreamData :
       /\ EarlierUpstreamMessage(i, data)
       /\ WithinReuse(arrived')
  \/ \E i \in DOMAIN calls.earlier : EarlierClientClose(i)
  \/ \E i \in DOMAIN calls.earlier : EarlierClientError(i)
  \/ \E i \in DOMAIN calls.earlier : EarlierUpstreamError(i)
  \/ \E i \in DOMAIN calls.earlier, code \in ReuseCloseCodes :
       EarlierUpstreamClose(i, code)

SpecDeployment == InitDeployment /\ [][NextDeployment]_vars

\* the deployment with an upstream whose handshake always ends, in an open
\* event or in an error event: the runtime delivers the event it holds to
\* the listener that connectUpstream attached
HandshakeEnds == UpstreamOpen \/ UpstreamConnectError

SpecDeploymentLive == SpecDeployment /\ WF_vars(HandshakeEnds)

\* ------------------------------------------------------------------------
\* One session with everything it receives and sends written down
\* ------------------------------------------------------------------------

\* the number of received messages that are written down
MaxLogged == 4

OrderRequests ==
  { r \in Requests : r.upgrade = Str("websocket") /\ r.scenario = Str("a1_taxi_bogota") }

OrderClientData ==
  { Raw(ClientObject(Str("response.create")), TRUE),
    Raw(ClientObject(Str("response.cancel")), TRUE),
    Raw(ClientObject(Str("session.delete")), TRUE) }

OrderUpstreamData ==
  { Raw(e, TRUE) :
      e \in { ClientObject(Str("response.created")),
              ClientObject(Str("response.done")),
              DoneEvent(Str("c1"), Str("trigger_quiz"), Text(<<"{", "}">>)) } }

InitOrder ==
  InitSession /\ allowedOrigins = <<>> /\ history = NoHistory(MaxLogged)

NextOrder ==
  \/ \E request \in OrderRequests : fetch(request)
  \/ UpstreamOpen
  \/ UpstreamConnectError
  \/ \E data \in OrderClientData : handleClientMessage(data)
  \/ \E data \in OrderUpstreamData : handleUpstreamMessage(data)
  \/ ClientClose
  \/ UpstreamClose(1000)

SpecOrder == InitOrder /\ [][NextOrder]_vars

\* ------------------------------------------------------------------------
\* The functions of tools.ts and scenarios.ts called on their own
\* ------------------------------------------------------------------------

ToolNames == {"grade_lesson", "trigger_quiz", "nope", ""}

\* a sub-score: missing, a string, or a number
ScoreValues ==
  { NoValue, StrValue("8"), NumValue(0), NumValue(7), NumValue(8),
    NumValue(9) }

\* lesson_id and focus: missing, an empty or non-empty string, or a number
LabelValues == { NoValue, StrValue(""), StrValue("unit_3"), NumValue(7) }

ToolArgs ==
  { NullArgs, ScalarArgs }
  \cup { ArgsObject(vocabulary, grammar, fluency, notes, lesson_id, focus) :
           vocabulary \in ScoreValues, grammar \in ScoreValues,
           fluency \in ScoreValues, notes \in {NoValue, StrValue("good")},
           lesson_id \in LabelValues, focus \in LabelValues }

ScenarioIds == {"a1_taxi_bogota", ""}

LookupIds ==
  { "a1_taxi_bogota", "A1_TAXI_BOGOTA", "b2_hotel_madrid", "",
    "constructor", "toString", "__defineGetter__" }

\* executeTool(name, args, scenarioId), called once
callExecuteTool ==
  /\ applied = NothingApplied
  /\ \E name \in ToolNames, args \in ToolArgs, scenario \in ScenarioIds :
       applied' =
         [fn |-> "executeTool", name |-> name, args |-> args,
          scenarioId |-> scenario,
          threw |-> executeToolThrows(name, args),
          result |-> IF executeToolThrows(name, args) THEN [ok |-> FALSE]
                     ELSE executeTool(name, args, scenario)]
  /\ UNCHANGED <<pc, response, scenarioId, clientWs, upstreamWs, clientReady,
                 upstreamReady, listening, clientCloseCode, upstreamCloseCode,
                 pendingToolCalls, sentUp, sentCl, last, done, arrived,
                 allowedOrigins, worker, served, contacted, upstreamLog, orphaned, calls,
                 history, hook>>

\* getScenario(id), called once
callGetScenario ==
  /\ applied = NothingApplied
  /\ \E id \in LookupIds :
       applied' =
         [fn |-> "getScenario", name |-> id, args |-> EmptyArgs,
          scenarioId |-> "", threw |-> FALSE, result |-> getScenario(id)]
  /\ UNCHANGED <<pc, response, scenarioId, clientWs, upstreamWs, clientReady,
                 upstreamReady, listening, clientCloseCode, upstreamCloseCode,
                 pendingToolCalls, sentUp, sentCl, last, done, arrived,
                 allowedOrigins, worker, served, contacted, upstreamLog, orphaned, calls,
                 history, hook>>

NextTools == callExecuteTool \/ callGetScenario

SpecTools == Init /\ [][NextTools]_vars

\* ------------------------------------------------------------------------
\* The useRealtime hook in the browser
\* ------------------------------------------------------------------------

\* sockets one hook creates
MaxSockets == 3

\* samples the worklet delivers
MaxCaptured == 1000

\* events added to the debug list
MaxEvents == 70

\* calls of startMic and of stopMic
MaxStarts == 2

MaxStops == 2

\* events sent with sendEvent
MaxSent == 1

\* sizes of the frames the worklet posts
FrameSizes == {128, 480, 500, 1000}

SessionIdle ==
  UNCHANGED <<pc, response, scenarioId, clientWs, upstreamWs, clientReady,
              upstreamReady, listening, clientCloseCode, upstreamCloseCode,
              pendingToolCalls, sentUp, sentCl, last, done, arrived,
              allowedOrigins, worker, served, contacted, upstreamLog, orphaned, calls,
              history, applied>>

\* addEvent({type, timestamp: Date.now(), ...})
Noted(h, type) ==
  [h EXCEPT !.recentEvents =
              addEvent(@, [type |-> type, timestamp |-> h.clock + 1]),
            !.clock = h.clock + 1]

HookSocketOpen(h) == h.wsRef # 0 /\ h.sockets[h.wsRef] = "OPEN"

\* ws.close(...): the socket starts closing unless it has closed already
Closing(ready) == IF ready = "CLOSED" THEN "CLOSED" ELSE "CLOSING"

\* audioCtxRef.current.close(), when the ref is set
Closed(ctxLive, ref) ==
  [k \in DOMAIN ctxLive |-> ctxLive[k] /\ k # ref]

\* connect(): nothing when wsRef.current is set
connect ==
  /\ hook.wsRef = 0
  /\ Len(hook.sockets) < MaxSockets
  /\ hook' = [hook EXCEPT !.sockets = Append(@, "CONNECTING"),
                          !.wsRef = Len(hook.sockets) + 1]
  /\ SessionIdle

\* disconnect()
disconnect ==
  /\ hook.wsRef # 0
  /\ hook' = [hook EXCEPT !.sockets[hook.wsRef] = Closing(@),
                          !.wsRef = 0,
                          !.connected = FALSE]
  /\ SessionIdle

\* ws.onopen of socket i
onopen(i) ==
  /\ hook.sockets[i] = "CONNECTING"
  /\ hook.clock < MaxEvents
  /\ hook' = Noted([hook EXCEPT !.sockets[i] = "OPEN", !.connected = TRUE],
                   "connection.open")
  /\ SessionIdle

\* ws.onerror of socket i: the connection has failed (once per socket), its
\* close event follows.  The handler looks at no state
onerror(i) ==
  /\ hook.sockets[i] \in {"CONNECTING", "OPEN", "CLOSING"}
  /\ i \notin hook.errored
  /\ hook.clock < MaxEvents
  /\ hook' = Noted([hook EXCEPT !.sockets[i] = "CLOSING",
                                !.errored = @ \cup {i}],
                   "connection.error")
  /\ SessionIdle

\* the cleanup of the effect (the component unmounts): the worklet is
\* detached and the AudioContext closed without clearing their refs, the
\* socket is closed and wsRef.current cleared; no state is set
unmount ==
  /\ hook' = [hook EXCEPT !.feeding = @ \ {hook.worklet, hook.audioCtx},
                          !.ctxLive = Closed(@, hook.audioCtx),
                          !.sockets = IF hook.wsRef = 0 THEN @
                                      ELSE [@ EXCEPT ![hook.wsRef] = Closing(@)],
                          !.wsRef = 0]
  /\ SessionIdle

\* ws.onclose of socket i: closed by the peer, or the end of a close the
\* hook or a failure started
onclose(i) ==
  /\ hook.sockets[i] \in {"OPEN", "CLOSING"}
  /\ hook.clock < MaxEvents
  /\ hook' = Noted([hook EXCEPT !.sockets[i] = "CLOSED",
                                !.connected = FALSE,
                                !.wsRef = 0],
                   "connection.close")
  /\ SessionIdle

NextHookSocket ==
  \/ connect
  \/ disconnect
  \/ unmount
  \/ \E i \in 1..Len(hook.sockets) : onopen(i)
  \/ \E i \in 1..Len(hook.sockets) : onerror(i)
  \/ \E i \in 1..Len(hook.sockets) : onclose(i)

SpecHookSocket == Init /\ [][NextHookSocket]_vars

\* the numbers of the samples waiting in the buffer
Waiting(h) ==
  { (IF h.pcmBuffer[j] < 0 THEN -h.pcmBuffer[j] ELSE h.pcmBuffer[j]) :
      j \in 1..Len(h.pcmBuffer) }

\* pcmBufferOffsetRef.current = 0
BufferReset(h) ==
  [h EXCEPT !.discarded = @ \cup Waiting(h), !.pcmBuffer = <<>>]

\* startMic() is called while audioCtxRef.current is null: it waits for
\* getUserMedia.  The ref is set only after that, so that a second call can
\* begin while the first one waits
startMic ==
  /\ hook.audioCtx = 0
  /\ Len(hook.startPc) < MaxStarts
  /\ hook' = [hook EXCEPT !.startPc = Append(@, "getUserMedia"),
                          !.ctxLive = Append(@, FALSE)]
  /\ SessionIdle

\* getUserMedia of the call k resolves: its AudioContext is created and
\* audioCtxRef.current refers to it, the call waits for addModule
getUserMediaResolves(k) ==
  /\ hook.startPc[k] = "getUserMedia"
  /\ hook' = [hook EXCEPT !.audioCtx = k, !.ctxLive[k] = TRUE,
                          !.startPc[k] = "addModule"]
  /\ SessionIdle

\* getUserMedia rejects (no permission, no device): the call ends there
getUserMediaRejects(k) ==
  /\ hook.startPc[k] = "getUserMedia"
  /\ hook' = [hook EXCEPT !.startPc[k] = "none"]
  /\ SessionIdle

\* addModule rejects: the call ends with audioCtxRef.current set
addModuleRejects(k) ==
  /\ hook.startPc[k] = "addModule"
  /\ hook' = [hook EXCEPT !.startPc[k] = "none"]
  /\ SessionIdle

\* the rest of the call k after addModule: its worklet is connected on its
\* AudioContext and workletNodeRef.current refers to it, counter and
\* buffer are reset, mic.started is added
started(h, k) ==
  Noted([BufferReset(h) EXCEPT
           !.worklet = k,
           !.feeding = IF h.ctxLive[k] THEN @ \cup {k} ELSE @,
           !.chunksSent = 0,
           !.startPc[k] = "none"],
        "mic.started")

\* addModule of the call k resolves.  When stopMic or the cleanup has
\* closed its AudioContext in the meantime, building the nodes on it either
\* throws or gives nodes that deliver nothing
addModuleResolves(k) ==
  /\ hook.startPc[k] = "addModule"
  /\ hook.clock < MaxEvents
  /\ \/ hook' = started(hook, k)
     \/ /\ ~hook.ctxLive[k]
        /\ hook' = [hook EXCEPT !.startPc[k] = "none"]
  /\ SessionIdle

\* stopMic(): the nodes, the stream and the context the refs refer to are
\* released and the refs cleared, the buffer is reset, mic.stopped is added
stopMic ==
  /\ hook.stops < MaxStops
  /\ hook.clock < MaxEvents
  /\ hook' = Noted([BufferReset(hook) EXCEPT
                      !.feeding = @ \ {hook.worklet, hook.audioCtx},
                      !.ctxLive = Closed(@, hook.audioCtx),
                      !.worklet = 0,
                      !.audioCtx = 0,
                      !.stops = @ + 1],
                   "mic.stopped")
  /\ SessionIdle

\* the event handed to sendEvent: an input_audio_buffer.append of two
\* samples
SentEvents == { AudioAppend(<<Sample(1), Sample(2)>>) }

\* sendEvent(event): the event is sent as it is when the socket is open
sendEvent(event) ==
  /\ Len(hook.sent) < MaxSent
  /\ HookSocketOpen(hook)
  /\ hook' = [hook EXCEPT
                !.sent = Append(@, event),
                !.audio = IF event.type = "input_audio_buffer.append"
                          THEN Append(@, event)
                          ELSE @]
  /\ SessionIdle

\* workletNode.port.onmessage with a frame of size samples:
\* processWorkletData, and sendAudioChunk for every buffer it fills
onWorkletMessage(size) ==
  /\ hook.feeding # {}
  /\ hook.captured + size <= MaxCaptured
  /\ LET data == [i \in 1..size |-> Sample(hook.captured + i)]
         result == processWorkletData(data, 0, hook.pcmBuffer, <<>>)
         sent == IF HookSocketOpen(hook)
                 THEN [k \in 1..Len(result.chunks) |->
                         AudioAppend(result.chunks[k])]
                 ELSE <<>>
     IN hook' = [hook EXCEPT !.pcmBuffer = result.buffer,
                             !.captured = @ + size,
                             !.audio = @ \o sent,
                             !.chunksSent = @ + Len(sent),
                             !.openThroughout = @ /\ HookSocketOpen(hook)]
  /\ SessionIdle

NextHookAudio ==
  \/ connect
  \/ \E i \in 1..Len(hook.sockets) : onopen(i)
  \/ startMic
  \/ \E k \in DOMAIN hook.startPc : getUserMediaResolves(k)
  \/ \E k \in DOMAIN hook.startPc : getUserMediaRejects(k)
  \/ \E k \in DOMAIN hook.startPc : addModuleResolves(k)
  \/ \E k \in DOMAIN hook.startPc : addModuleRejects(k)
  \/ stopMic
  \/ \E size \in FrameSizes : onWorkletMessage(size)
  \/ \E event \in SentEvents : sendEvent(event)

SpecHookAudio == Init /\ [][NextHookAudio]_vars

\* an event of the relay as the hook reads it: its type and its transcript
HookEvent(type, transcript) ==
  [k |-> "object", type |-> type, transcript |-> transcript]

PlainMessage == Raw(HookEvent(Str("response.done"), Undef), TRUE)

\* messages the socket delivers to the hook
HookMessages ==
  { Binary, Raw(Garbage, FALSE), Raw(JsonNull, TRUE), Raw(JsonScalar, TRUE),
    PlainMessage,
    Raw(HookEvent(Undef, Undef), TRUE),
    Raw(HookEvent(Str("response.audio_transcript.done"), Str("hola")), TRUE),
    Raw(HookEvent(Str("response.audio_transcript.done"), Str("")), TRUE),
    Raw(HookEvent(Str("conversation.item.input_audio_transcription.completed"),
                  Str("al hotel")), TRUE) }

\* messages of other kinds than PlainMessage arrive among the first events
MaxVaried == 2

\* the transcript field of a parsed message
TranscriptOf(event) ==
  IF event.k = "object" THEN event.transcript ELSE Undef

\* the role the switch of handleMessage files a transcript under
RoleOf(type) ==
  IF type = Str("response.audio_transcript.done") THEN "assistant"
  ELSE IF type = Str("conversation.item.input_audio_transcription.completed")
       THEN "user"
       ELSE "none"

\* handleMessage(data): nothing when JSON.parse throws, or when the value is
\* null (event.type throws); otherwise the event is added with its type or
\* "unknown", and a complete transcript is appended to the transcript
handleMessage(h, data) ==
  IF JsonParseThrows(data) THEN h
  ELSE LET event == JsonParse(data)
       IN IF event.k = "null" THEN h
          ELSE LET realtimeEvent ==
                     [type |-> IF Truthy(event.type) THEN event.type.v
                               ELSE "unknown",
                      timestamp |-> h.clock + 1]
                   text == TranscriptOf(event)
                   spoken == RoleOf(event.type) # "none" /\ Truthy(text)
               IN [h EXCEPT
                     !.recentEvents = addEvent(@, realtimeEvent),
                     !.clock = h.clock + 1,
                     !.transcript =
                        IF spoken
                        THEN Append(@, [role |-> RoleOf(event.type),
                                        text |-> text.v,
                                        timestamp |-> h.clock + 1])
                        ELSE @]

\* ws.onmessage of socket i: strings go to handleMessage
onmessage(i, data) ==
  /\ hook.sockets[i] = "OPEN"
  /\ hook.clock < MaxEvents
  /\ data # PlainMessage => hook.clock <= MaxVaried
  /\ hook' = IF data.text THEN handleMessage(hook, data) ELSE hook
  /\ SessionIdle

NextHookEvents ==
  \/ connect
  \/ \E i \in 1..Len(hook.sockets) : onopen(i)
  \/ \E i \in 1..Len(hook.sockets), data \in HookMessages : onmessage(i, data)

SpecHookEvents == Init /\ [][NextHookEvents]_vars

TypeOK ==
  /\ pc \in {"idle", "awaitUpstream", "returned"}
  /\ response \in {0, 101, 400, 426, 500}
  /\ worker.status \in {0, 200, 204, 400, 403, 404, 426, 500}
  /\ clientWs \in {"null", "set"}
  /\ upstreamWs \in {"null", "set"}
  /\ clientReady \in ReadyStates
  /\ upstreamReady \in ReadyStates
  /\ listening \in BOOLEAN
  /\ DOMAIN pendingToolCalls \subseteq CallIds

\* ------------------------------------------------------------------------
\* Properties: client -> upstream relay
\* ------------------------------------------------------------------------

\* the last step handled a message of the given source while both sockets
\* of the session were open (the session was ACTIVE)
HandledWhileActive(op) ==
  last.op = op /\ last.upstreamOpen /\ last.clientOpen

IsStructured(data) == data.text /\ data.body.k = "object"

HasWhitelistedType(data) ==
  /\ IsStructured(data)
  /\ data.body.type.t = "string"
  /\ data.body.type.v \in ALLOWED_CLIENT_EVENT_TYPES

IsErrorEvent(m) == m.kind = "made" /\ m.msg.type = "error"

DisallowedHandled ==
  /\ HandledWhileActive("client")
  /\ IsStructured(last.data)
  /\ ~HasWhitelistedType(last.data)

WhitelistedHandled ==
  HandledWhileActive("client") /\ HasWhitelistedType(last.data)

BothSocketsOpen ==
  /\ clientWs = "set" /\ clientReady = "OPEN"
  /\ upstreamWs = "set" /\ upstreamReady = "OPEN"

\* C1: a structured client message handled by an ACTIVE session whose type
\* is not one of the seven whitelisted strings (missing, empty and
\* non-string types included) is not forwarded upstream, and the client is
\* sent exactly one error event for it.
C1_DisallowedAnsweredNotForwarded ==
  DisallowedHandled =>
    /\ sentUp = <<>>
    /\ Len(sentCl) = 1
    /\ IsErrorEvent(sentCl[1])

C1_Witness ==
  /\ DisallowedHandled
  /\ last.data.body.type = Undef
  /\ Len(sentCl) = 1

\* C2: a client text message with a whitelisted type handled by an ACTIVE
\* session goes upstream exactly once, as the very string the client sent,
\* and no error event goes to the client.
C2_WhitelistedForwardedVerbatim ==
  WhitelistedHandled =>
    /\ Len(sentUp) = 1
    /\ sentUp[1].kind = "relayed"
    /\ sentUp[1].data = last.data
    /\ sentCl = <<>>

C2_Witness ==
  /\ WhitelistedHandled
  /\ ~last.data.canon
  /\ Len(sentUp) = 1

\* C3: after a disallowed client event has been answered with an error both
\* connections are still open, and a whitelisted client event that comes
\* next is forwarded upstream.
C3_ViolationKeepsSession ==
  /\ [](DisallowedHandled => BothSocketsOpen)
  /\ [][(DisallowedHandled /\ WhitelistedHandled') =>
          (sentUp' = <<Relayed(last'.data)>> /\ BothSocketsOpen')]_vars

C3_Witness ==
  /\ DisallowedHandled
  /\ last.data.body.type = Str("session.delete")
  /\ IsErrorEvent(sentCl[1])
  /\ BothSocketsOpen

\* the payloads the claim calls not text or not well-formed
NotStructuredHandled ==
  HandledWhileActive("client") /\ ~IsStructured(last.data)

SilentlyDropped == sentUp = <<>> /\ sentCl = <<>> /\ BothSocketsOpen

\* C4 as stated: every client message that is not text, cannot be parsed,
\* or parses to something that is not a structured object is silently
\* dropped.
C4_NotStructuredDropped == NotStructuredHandled => SilentlyDropped

\* C4, amended: a client message that is not text or cannot be parsed is
\* silently dropped (as is JSON null, whose handler ends in an exception);
\* any other parseable payload that is not an object is answered with one
\* error event, like an event without a type, and is not forwarded.
C4_MalformedDroppedScalarAnswered ==
  NotStructuredHandled =>
    IF last.data.text /\ last.data.body.k = "scalar"
    THEN /\ sentUp = <<>>
         /\ Len(sentCl) = 1
         /\ IsErrorEvent(sentCl[1])
         /\ BothSocketsOpen
    ELSE SilentlyDropped

C4_Witness ==
  /\ NotStructuredHandled
  /\ last.data = Raw(Garbage, FALSE)
  /\ SilentlyDropped

\* ------------------------------------------------------------------------
\* Properties: upstream -> client relay
\* ------------------------------------------------------------------------

\* the client was sent the handled message once, with the same content
ForwardedOnce ==
  /\ Len(sentCl) = 1
  /\ sentCl[1].kind = "relayed"
  /\ sentCl[1].data.text = last.data.text
  /\ sentCl[1].data.body = last.data.body

\* C5: while the session is ACTIVE, every message received from upstream is
\* forwarded to the client exactly once with unchanged content.
C5_EveryUpstreamMessageForwarded ==
  HandledWhileActive("upstream") => ForwardedOnce

IsCallEvent(data) ==
  IsStructured(data)
    /\ (IsType(data.body, DeltaType) \/ IsType(data.body, DoneType))

\* C6: an upstream fragment or completion event is both processed (a
\* completion with a call id is answered upstream with a call output and a
\* response request) and forwarded to the client.
C6_InterceptionKeepsForward ==
  (HandledWhileActive("upstream") /\ IsCallEvent(last.data)) =>
    /\ ForwardedOnce
    /\ (IsType(last.data.body, DoneType) /\ Truthy(last.data.body.call_id))
         => Len(sentUp) = 2

\* ------------------------------------------------------------------------
\* Properties: call accumulator
\* ------------------------------------------------------------------------

\* the deltas of a call one after the other, in the order they arrived
RECURSIVE InArrivalOrder(_)
InArrivalOrder(deltas) ==
  IF deltas = <<>> THEN <<>>
  ELSE Head(deltas) \o InArrivalOrder(Tail(deltas))

\* the last step completed a call for which fragments had arrived
CompletedWithFragments == done.ran /\ last.received # <<>>
\* the last step completed a call for which no fragment had arrived
CompletedWithoutFragments == done.ran /\ last.received = <<>>

\* C7: the argument string used at the completion of a call is the
\* concatenation of the deltas of that call id, in arrival order, whatever
\* fragments of other call ids arrived in between.
C7_ArgsAreOwnFragmentsInOrder ==
  CompletedWithFragments => done.argsString = InArrivalOrder(last.received)

C7_Witness ==
  /\ CompletedWithFragments
  /\ done.callId = "c1"
  /\ last.received = << <<"{">>, <<"}">> >>
  /\ done.argsString = <<"{", "}">>
  /\ "c2" \in DOMAIN pendingToolCalls

\* C8: once a completion event of a call id is processed the mapping has no
\* entry for the id, and an entry always holds exactly the fragments that
\* arrived for its id since that id was last completed.
C8_EntryGoneThenFresh ==
  /\ done.ran => done.callId \notin DOMAIN pendingToolCalls
  /\ \A id \in DOMAIN pendingToolCalls :
       /\ id \in DOMAIN arrived
       /\ pendingToolCalls[id].argFragments = arrived[id].deltas
  /\ \A id \in DOMAIN arrived :
       arrived[id].deltas # <<>> => id \in DOMAIN pendingToolCalls

C8_Witness ==
  /\ "c1" \in DOMAIN pendingToolCalls
  /\ "c1" \in DOMAIN arrived
  /\ arrived["c1"].completed
  /\ pendingToolCalls["c1"].argFragments = << <<"}">> >>

\* C9: without a pending entry the argument string is the one carried on
\* the completion event, or "{}" when the event carries none; with an entry
\* the accumulated fragments are used and the event's own string is ignored.
C9_ArgsFallback ==
  /\ CompletedWithoutFragments =>
       done.argsString =
         IF last.data.body.arguments.t = "string"
              /\ last.data.body.arguments.v # <<>>
         THEN last.data.body.arguments.v
         ELSE <<"{", "}">>
  /\ (CompletedWithFragments /\ last.data.body.arguments.t = "string") =>
       done.argsString = InArrivalOrder(last.received)

C9_Witness ==
  /\ CompletedWithoutFragments
  /\ last.data.body.arguments = UndefText
  /\ done.argsString = <<"{", "}">>

\* the name carried on the completion event, "" when it carries none
CarriedName ==
  IF last.data.body.name.t = "string" THEN last.data.body.name.v ELSE ""

\* C10 as stated: the effective tool name is the entry's name whenever an
\* entry exists, the completion event's name only when there is none.
C10_NameFromEntryWheneverPresent ==
  done.ran =>
    done.toolName = IF done.hasEntry THEN done.entryName ELSE CarriedName

\* C10, amended: the effective tool name is the entry's name when an entry
\* exists and its recorded name is not empty, and the name carried on the
\* completion event otherwise.
C10_NameFromEntryUnlessEmpty ==
  done.ran =>
    done.toolName = IF done.hasEntry /\ done.entryName # ""
                    THEN done.entryName ELSE CarriedName

C10_Witness ==
  /\ done.ran
  /\ done.hasEntry
  /\ done.entryName = ""
  /\ CarriedName = "grade_lesson"
  /\ done.toolName = "grade_lesson"

\* C11: the name recorded in a pending entry is the name carried by the most
\* recent fragment of its call id that carried a tool name, and is empty
\* while no fragment carried one; a fragment without a name leaves the
\* recorded name as it was.
C11_NameIsLastCarried ==
  \A id \in DOMAIN pendingToolCalls :
    id \in DOMAIN arrived /\ pendingToolCalls[id].name = arrived[id].named

C11_Witness ==
  /\ last.op = "upstream"
  /\ IsType(last.data.body, DeltaType)
  /\ last.data.body.call_id = Str("c1")
  /\ last.data.body.name = Undef
  /\ "c1" \in DOMAIN pendingToolCalls
  /\ pendingToolCalls["c1"].name = "trigger_quiz"
  /\ pendingToolCalls["c1"].argFragments = << <<"{">>, <<"}">>, <<"{">> >>

\* ------------------------------------------------------------------------
\* Properties: completion of a call
\* ------------------------------------------------------------------------

\* the last step completed a call in an ACTIVE session
CompletedWhileActive == HandledWhileActive("upstream") /\ done.ran

IsCallOutput(m, callId) ==
  /\ m.kind = "made"
  /\ m.msg.type = "conversation.item.create"
  /\ m.msg.item.type = "function_call_output"
  /\ m.msg.item.call_id = callId

IsResponseRequest(m) == m.kind = "made" /\ m.msg.type = "response.create"

\* C12: when the argument string of a completed call does not parse, one
\* call output for the call id with a failure result (ok = false) and then
\* one response request go upstream, the tool dispatcher is not invoked, and
\* both connections stay open.
C12_ParseFailureReported ==
  (CompletedWhileActive /\ ~done.parsed) =>
    /\ Len(sentUp) = 2
    /\ IsCallOutput(sentUp[1], done.callId)
    /\ sentUp[1].msg.item.output.ok = FALSE
    /\ sentUp[1].msg.item.output = ParseFailure
    /\ IsResponseRequest(sentUp[2])
    /\ ~done.invoked
    /\ BothSocketsOpen

C12_Witness ==
  /\ CompletedWhileActive
  /\ done.hasEntry
  /\ done.argsString = <<"}", "{">>
  /\ ~done.parsed
  /\ Len(sentUp) = 2
  /\ BothSocketsOpen

\* C13: when the argument string of a completed call parses, the tool
\* dispatcher is invoked with the effective tool name, the parsed arguments
\* and the scenario id, and its result goes upstream as the call's output,
\* followed by a response request.
C13_ParseSuccessAnswered ==
  (CompletedWhileActive /\ done.parsed) =>
    /\ done.invoked
    /\ sentUp = << FunctionCallOutput(
                     done.callId,
                     executeTool(done.toolName, ArgsParse(done.argsString),
                                 scenarioId)),
                   ResponseCreate >>

\* ------------------------------------------------------------------------
\* Properties: handshake
\* ------------------------------------------------------------------------

\* C14: the first three messages that go upstream are session.update, the
\* opening assistant message and response.create, in this order: nothing
\* goes upstream before the upstream socket has opened, the step that opens
\* it sends exactly the three, and whatever is relayed or answered later
\* comes after them.
C14_HandshakeComesFirst ==
  /\ upstreamReady \in {"NONE", "CONNECTING"} => upstreamLog = <<>>
  /\ last.op = "upstreamOpen" => Len(sentUp) = 3 /\ upstreamLog = sentUp
  /\ upstreamLog # <<>> =>
       /\ Len(upstreamLog) = 3
       /\ upstreamLog[1].kind = "made"
       /\ upstreamLog[1].msg.type = "session.update"
       /\ upstreamLog[1].msg.scenario = scenarioId
       /\ upstreamLog[2].kind = "made"
       /\ upstreamLog[2].msg.type = "conversation.item.create"
       /\ upstreamLog[2].msg.item.type = "message"
       /\ upstreamLog[2].msg.item.role = "assistant"
       /\ IsResponseRequest(upstreamLog[3])

C14_Witness ==
  /\ WhitelistedHandled
  /\ Len(sentUp) = 1
  /\ sentUp[1].kind = "relayed"
  /\ Len(upstreamLog) = 3
  /\ upstreamLog[1].msg.type = "session.update"

\* ------------------------------------------------------------------------
\* Properties: admission of a session
\* ------------------------------------------------------------------------

\* C15: a session request for a scenario id that is not in the catalog is
\* answered 400 with no client socket pair created and no upstream
\* connection opened.
C15_UnknownScenarioRejected ==
  (contacted /\ IsWebSocketUpgrade(served)
     /\ scenarioId \notin ScenarioCatalog) =>
    /\ pc = "returned"
    /\ response = 400
    /\ clientWs = "null" /\ clientReady = "NONE"
    /\ upstreamWs = "null" /\ upstreamReady = "NONE"

\* the worker was asked for an upgrade on /ws without a scenario id
UpgradeWithoutScenario ==
  /\ worker.request.method = "GET"
  /\ worker.request.path = WsPath
  /\ IsWebSocketUpgrade(worker.request)
  /\ ~Truthy(worker.request.scenario)

\* what a session instance and its sockets are made of
SessionSockets ==
  <<contacted, served, clientWs, clientReady, upstreamWs, upstreamReady, calls>>

\* C16: an upgrade request without a scenario id (parameter missing or
\* empty) is answered by the worker with an error status: no session
\* instance is contacted and no socket is created for it.
C16_MissingScenarioNotUpgraded ==
  /\ [](UpgradeWithoutScenario =>
          /\ worker.status \in {400, 403}
          /\ worker.session = "none")
  /\ [][(last'.op = "worker" /\ UpgradeWithoutScenario') =>
          UNCHANGED SessionSockets]_vars

C16_Witness ==
  /\ UpgradeWithoutScenario
  /\ last.op = "worker"
  /\ worker.request.scenario = Str("")
  /\ worker.request.origin = Str("https://app.example")
  /\ worker.status = 400
  /\ ~contacted

\* ------------------------------------------------------------------------
\* Properties: end of a session
\* ------------------------------------------------------------------------

\* the upstream handshake of the latest call has failed: fetch() has ended
\* through its catch
HandshakeFailed ==
  pc = "returned" /\ contacted /\ ~listening /\ response \in {101, 500}

\* C17: when the upstream handshake fails the client is sent one error
\* event and its connection is closed with 1011; from then on no
\* connection of the session instance is open, nothing more is sent to
\* either side, and no upstream connection is attempted again.
C17_HandshakeFailureEndsSession ==
  /\ [](last.op = "connectError" =>
          /\ Len(sentCl) = 1 /\ IsErrorEvent(sentCl[1])
          /\ sentUp = <<>>
          /\ clientReady = "CLOSING" /\ clientCloseCode = 1011)
  /\ [](HandshakeFailed =>
          /\ clientReady \in {"CLOSING", "CLOSED"}
          /\ upstreamReady \in {"CLOSING", "CLOSED"}
          /\ \A i \in DOMAIN calls.earlier :
               /\ calls.earlier[i].clientReady # "OPEN"
               /\ calls.earlier[i].upstreamReady \notin {"CONNECTING", "OPEN"})
  /\ [][HandshakeFailed =>
          /\ sentCl' = <<>> /\ sentUp' = <<>>
          /\ upstreamReady' \notin {"CONNECTING", "OPEN"}
          /\ clientReady' # "OPEN"]_vars

\* C18: once the client connection has closed the upstream connection is
\* not open any more, and a client close that found it open has closed it
\* with code 1000.
C18_ClientCloseClosesUpstream ==
  /\ clientReady = "CLOSED" => upstreamReady # "OPEN"
  /\ (last.op = "clientClose" /\ last.upstreamOpen) => upstreamCloseCode = 1000

\* C19: an upstream close in an ACTIVE session closes the client
\* connection, with the normal-closure code 1000 whatever code upstream
\* closed with.
C19_UpstreamCloseClosesClient ==
  (last.op = "upstreamClose" /\ last.upstreamOpen /\ last.clientOpen) =>
    /\ clientReady \in {"CLOSING", "CLOSED"}
    /\ clientCloseCode = 1000

\* C20: an error event on either connection of an ACTIVE session leaves the
\* other connection closed (or closing) and the pending-call mapping empty.
C20_ErrorTearsDown ==
  (last.op \in {"clientError", "upstreamError"}
     /\ last.upstreamOpen /\ last.clientOpen) =>
    /\ clientReady # "OPEN"
    /\ upstreamReady # "OPEN"
    /\ pendingToolCalls = EmptyMap

\* a connection of an ACTIVE session has just closed
FirstCloseHandled ==
  /\ last.op \in {"clientClose", "upstreamClose"}
  /\ last.upstreamOpen
  /\ last.clientOpen

\* C21: when the first of the two connections of an ACTIVE session closes,
\* the other one is closed (or closing) as well, and once both are closed
\* the pending-call mapping is empty.
C21_FirstCloseTearsDown ==
  /\ FirstCloseHandled => clientReady # "OPEN" /\ upstreamReady # "OPEN"
  /\ (listening /\ clientReady = "CLOSED" /\ upstreamReady = "CLOSED") =>
       pendingToolCalls = EmptyMap

\* cleanup() has run: the session refers to no socket any more
TornDown == listening /\ clientWs = "null" /\ upstreamWs = "null"

\* C22: once the session is torn down no step sends anything to either
\* side and the pending-call mapping stays empty, also when upstream events
\* that were in flight are delivered.
C22_TornDownIsTerminal ==
  TornDown =>
    /\ sentUp = <<>>
    /\ sentCl = <<>>
    /\ pendingToolCalls = EmptyMap

\* C23: no socket of an earlier request is left open after a later request
\* to the same instance has replaced it in clientWs / upstreamWs.
C23_NoOrphanedConnection == ~orphaned.client /\ ~orphaned.upstream

\* C25: a completed call whose tool name is neither grade_lesson nor
\* trigger_quiz is answered with a call output that says ok = false and
\* names the unknown tool, followed by a response request; nothing is
\* thrown and both connections stay open.
C25_UnknownToolAnswered ==
  (CompletedWhileActive /\ done.parsed
     /\ done.toolName \notin {"grade_lesson", "trigger_quiz"}) =>
    /\ Len(sentUp) = 2
    /\ IsCallOutput(sentUp[1], done.callId)
    /\ sentUp[1].msg.item.output.ok = FALSE
    /\ sentUp[1].msg.item.output.error = <<"Unknown tool: ", done.toolName>>
    /\ IsResponseRequest(sentUp[2])
    /\ ~last.threw
    /\ BothSocketsOpen

C25_Witness ==
  /\ CompletedWhileActive
  /\ done.parsed
  /\ done.toolName = "nope"
  /\ Len(sentUp) = 2
  /\ BothSocketsOpen

\* the sub-score the grading tool is said to use for a property value
SubScoreUsed(x) == IF x.t = "number" THEN x.n ELSE 0

Distance(a, b) == IF a >= b THEN a - b ELSE b - a

\* the grading tool was called with arguments that are an object or a scalar
GradingApplied ==
  /\ applied.fn = "executeTool"
  /\ applied.name = "grade_lesson"
  /\ applied.args.k # "null"

\* C26: the grading tool returns ok = true, echoes the three sub-scores it
\* used (a missing or non-numeric one counted as 0), and its score is their
\* mean to the nearest hundredth; 8, 7 and 9 give 8.
C26_GradeIsRoundedMean ==
  GradingApplied =>
    LET v == SubScoreUsed(applied.args.vocabulary_score)
        g == SubScoreUsed(applied.args.grammar_score)
        f == SubScoreUsed(applied.args.fluency_score)
    IN /\ ~applied.threw
       /\ applied.result.ok = TRUE
       /\ applied.result.vocabulary_score = v
       /\ applied.result.grammar_score = g
       /\ applied.result.fluency_score = f
       /\ 2 * Distance(3 * applied.result.score100, 100 * (v + g + f)) <= 3
       /\ (v = 8 /\ g = 7 /\ f = 9) => applied.result.score100 = 800

\* a mean that is not a whole number of hundredths and rounds upwards,
\* with one sub-score that is not a number
C26_Witness ==
  /\ GradingApplied
  /\ applied.args.vocabulary_score = NumValue(8)
  /\ applied.args.grammar_score = NumValue(9)
  /\ applied.args.fluency_score = StrValue("8")
  /\ applied.result.score100 = 567

\* the quiz tool was called with arguments that are an object or a scalar
QuizApplied ==
  /\ applied.fn = "executeTool"
  /\ applied.name = "trigger_quiz"
  /\ applied.args.k # "null"

\* C27: the quiz tool returns ok = true with the lesson_id of the
\* arguments when that is a string and the scenario id otherwise, and the
\* focus of the arguments when that is a string and "vocabulary" otherwise.
C27_QuizEchoesOrDefaults ==
  QuizApplied =>
    /\ ~applied.threw
    /\ applied.result.ok = TRUE
    /\ applied.result.quiz.lesson_id =
         (IF applied.args.lesson_id.t = "string"
          THEN applied.args.lesson_id.s ELSE applied.scenarioId)
    /\ applied.result.quiz.focus =
         (IF applied.args.focus.t = "string"
          THEN applied.args.focus.s ELSE "vocabulary")

\* a lesson_id that is not a string, on a session with a scenario, and a
\* focus that is given
C27_Witness ==
  /\ QuizApplied
  /\ applied.args.lesson_id = NumValue(7)
  /\ applied.args.focus = StrValue("unit_3")
  /\ applied.scenarioId = "a1_taxi_bogota"
  /\ applied.result.quiz.lesson_id = "a1_taxi_bogota"

\* C28: the lookup of an identifier that is not the id of a scenario of
\* the catalog finds nothing.
C28_LookupOutsideCatalogAbsent ==
  (applied.fn = "getScenario" /\ applied.name \notin ScenarioCatalog) =>
    ~applied.result.found

\* the latest fetch() waits for connectUpstream and upstream has sent no
\* event
StalledHandshake == pc = "awaitUpstream" /\ upstreamReady = "CONNECTING"

\* the same of the earlier call i
EarlierStalled(i) ==
  calls.earlier[i].pending /\ calls.earlier[i].upstreamReady = "CONNECTING"

IsCallEventOfAnother(data, id) ==
  /\ data.text
  /\ ~JsonParseThrows(data)
  /\ JsonParse(data).k # "null"
  /\ IsType(JsonParse(data), DeltaType) \/ IsType(JsonParse(data), DoneType)
  /\ JsonParse(data).call_id # Str(id)

\* C30: a fragment or completion event for one call id leaves the pending
\* entry of every other call id as it was, name and fragments.
C30_OtherCallsUntouched ==
  [][\A id \in DOMAIN pendingToolCalls :
       (last'.op = "upstream" /\ IsCallEventOfAnother(last'.data, id)) =>
         /\ id \in DOMAIN pendingToolCalls'
         /\ pendingToolCalls'[id] = pendingToolCalls[id]]_vars

\* the call c1 was completed from its entry while c2 has fragments pending
C30_Witness ==
  /\ last.op = "upstream"
  /\ done.ran
  /\ done.hasEntry
  /\ done.callId = "c1"
  /\ "c2" \in DOMAIN pendingToolCalls
  /\ pendingToolCalls["c2"].argFragments # <<>>

\* the client connection closed while the upstream handshake was pending
ClientGoneWhileConnecting ==
  pc = "awaitUpstream" /\ upstreamReady = "CONNECTING"
    /\ clientReady = "CLOSED"

\* C31: when the client connection closes while the upstream handshake is
\* pending, the upstream connection is eventually closing or closed.
C31_GoneClientClosesUpstream ==
  ClientGoneWhileConnecting ~> (upstreamReady \in {"CLOSING", "CLOSED"})

\* C32: every completion event with a non-empty call id that arrives while
\* upstream is open is answered upstream with one call output for that id
\* followed by one response request, and is relayed to an open client,
\* whatever its argument string is.
C32_EveryCompletionAnswered ==
  (last.op = "upstream" /\ done.ran /\ last.upstreamOpen) =>
    /\ Len(sentUp) = 2
    /\ IsCallOutput(sentUp[1], done.callId)
    /\ IsResponseRequest(sentUp[2])
    /\ last.clientOpen =>
         sentCl = <<Relayed(JsonStringify(JsonParse(last.data)))>>

\* the last step called send() on a client socket that was not OPEN: the
\* failure notice of fetch(), or the pass-through of a binary message
SentOnClosedClient ==
  \/ last.op = "connectError" /\ last.threw
  \/ /\ last.op = "upstream"
     /\ ~last.data.text
     /\ clientWs = "set"
     /\ clientReady # "OPEN"

\* C33: no step sends on a connection that is not OPEN.
C33_SendsOnlyWhenOpen == ~SentOnClosedClient

\* the call id of the event is missing or the empty string
WithoutCallId(event) ==
  event.call_id.t = "undefined" \/ event.call_id = Str("")

\* a fragment event without a call id or without a string delta
IsUnusableFragment(data) ==
  /\ data.text /\ ~JsonParseThrows(data) /\ JsonParse(data).k # "null"
  /\ IsType(JsonParse(data), DeltaType)
  /\ WithoutCallId(JsonParse(data)) \/ JsonParse(data).delta.t # "string"

\* a completion event without a call id
IsUnusableCompletion(data) ==
  /\ data.text /\ ~JsonParseThrows(data) /\ JsonParse(data).k # "null"
  /\ IsType(JsonParse(data), DoneType)
  /\ WithoutCallId(JsonParse(data))

\* C34: a fragment event without a call id or without a string delta, and
\* a completion event without a call id, leave the mapping as it was and
\* send nothing upstream; the event is still relayed to an open client.
C34_UnusableCallEventsOnlyRelayed ==
  [][(last'.op = "upstream"
        /\ (IsUnusableFragment(last'.data)
              \/ IsUnusableCompletion(last'.data))) =>
       /\ pendingToolCalls' = pendingToolCalls
       /\ sentUp' = <<>>
       /\ ClientIsOpen =>
            sentCl' = <<Relayed(JsonStringify(JsonParse(last'.data)))>>]_vars

\* a fragment without a string delta arrived for a call that has an entry,
\* and was relayed
C34_Witness ==
  /\ last.op = "upstream"
  /\ IsUnusableFragment(last.data)
  /\ JsonParse(last.data).call_id = Str("c1")
  /\ "c1" \in DOMAIN pendingToolCalls
  /\ sentCl # <<>>

\* the worker was asked for an upgrade on /ws
UpgradeServed ==
  /\ worker.request.method = "GET"
  /\ worker.request.path = WsPath
  /\ IsWebSocketUpgrade(worker.request)

\* the request names an origin, and the origin is not one of the list
FromUnlistedOrigin ==
  /\ worker.request.origin.t = "string"
  /\ worker.request.origin.v # ""
  /\ \A i \in 1..Len(allowedOrigins) :
       allowedOrigins[i] # worker.request.origin.v

\* C35: with a list of allowed origins, an upgrade request from an origin
\* that is not in the list is answered 403 and no session instance is
\* involved; without a list, an upgrade request that names a scenario is
\* handed to a session instance whatever its origin.
C35_UnlistedOriginStopped ==
  /\ []((UpgradeServed /\ allowedOrigins # <<>> /\ FromUnlistedOrigin) =>
          /\ worker.status = 403
          /\ worker.session = "none")
  /\ [][(last'.op = "worker" /\ UpgradeServed' /\ allowedOrigins # <<>>
            /\ FromUnlistedOrigin') =>
          UNCHANGED SessionSockets]_vars
  /\ []((UpgradeServed /\ allowedOrigins = <<>>
            /\ Truthy(worker.request.scenario)) =>
          /\ worker.session # "none"
          /\ worker.status # 403)

\* an upgrade for a known scenario from an origin outside the list
C35_Witness ==
  /\ UpgradeServed
  /\ last.op = "worker"
  /\ allowedOrigins = <<"https://app.example">>
  /\ worker.request.origin = Str("https://evil.example")
  /\ worker.request.scenario = Str("a1_taxi_bogota")
  /\ worker.status = 403

\* the sockets of the hook that are connecting or open
LiveSockets ==
  { i \in 1..Len(hook.sockets) : hook.sockets[i] \in {"CONNECTING", "OPEN"} }

\* C36: the hook has at most one live socket, wsRef refers to it, and the
\* connected flag tells whether it is open.
C36_HookFollowsLiveSocket ==
  /\ Cardinality(LiveSockets) <= 1
  /\ \A i \in LiveSockets :
       /\ hook.wsRef = i
       /\ hook.connected = (hook.sockets[i] = "OPEN")

\* the samples an input_audio_buffer.append event carries: the Int16Array
\* the receiver reads from its bytes
SamplesOf(event) ==
  [j \in 1..(Len(event.audio) \div 2) |->
     LET u == event.audio[2 * j - 1] + 256 * event.audio[2 * j]
     IN IF u >= 32768 THEN u - 65536 ELSE u]

\* C37: every input_audio_buffer.append event carries 480 samples; and
\* when every frame was processed while the socket was open, the events
\* sent carry the captured samples in capture order, each once, up to the
\* last full chunk, and the rest is waiting in the buffer.
C37_AudioChunkedInOrder ==
  /\ \A k \in 1..Len(hook.audio) :
       /\ hook.audio[k].type = "input_audio_buffer.append"
       /\ Len(hook.audio[k].audio) = 2 * 480
  /\ hook.openThroughout =>
       /\ Len(hook.audio) = hook.captured \div 480
       /\ \A k \in 1..Len(hook.audio) :
            SamplesOf(hook.audio[k]) =
              [j \in 1..480 |-> Sample((k - 1) * 480 + j)]
       /\ hook.pcmBuffer =
            [j \in 1..(hook.captured % 480) |->
               Sample(Len(hook.audio) * 480 + j)]

\* C38: the debug event list of the hook never holds more than 50 events,
\* and after any sequence of added events it holds the most recent ones (all
\* of them up to 50, the last 50 from then on) in the order they arrived.
\* Every event carries the number of its arrival as its timestamp.
C38_RecentEventsKept ==
  LET held == Len(hook.recentEvents)
  IN /\ held <= 50
     /\ held = (IF hook.clock <= 50 THEN hook.clock ELSE 50)
     /\ \A k \in 1..held :
          hook.recentEvents[k].timestamp = hook.clock - held + k

\* C38 witness: 63 events were added, of which the list holds the last 50:
\* from the 14th, which came after the varied ones, to the 63rd
C38_Witness ==
  /\ hook.clock = 63
  /\ Len(hook.recentEvents) = 50
  /\ hook.recentEvents[1].timestamp = 14
  /\ hook.recentEvents[50].timestamp = 63
  /\ Len(hook.transcript) = 2

\* the messages of a wire that were passed on from the other side
PassedOn(wire) == [i \in 1..Len(SelectSeq(wire, LAMBDA m : m.kind = "relayed")) |->
                     SelectSeq(wire, LAMBDA m : m.kind = "relayed")[i].data]

\* what the client is sent for an upstream message: the bytes of a binary
\* one, the serialisation of the parsed event of a text one
Reserialised(data) ==
  IF data.text /\ ~JsonParseThrows(data) THEN JsonStringify(JsonParse(data))
  ELSE data

RECURSIVE IsSubsequence(_, _)
IsSubsequence(s, t) ==
  IF s = <<>> THEN TRUE
  ELSE IF t = <<>> THEN FALSE
  ELSE IF Head(s) = Head(t) THEN IsSubsequence(Tail(s), Tail(t))
  ELSE IsSubsequence(s, Tail(t))

\* C24: the client events that reach upstream do so in the order the
\* client sent them and are all whitelisted, and the upstream events that
\* reach the client do so in the order upstream sent them, however the
\* messages of the two sources interleave.
C24_OrderPreserved ==
  /\ IsSubsequence(PassedOn(history.toUpstream),
                   SelectSeq(history.fromClient,
                             LAMBDA d : d.text /\ ~JsonParseThrows(d)
                                          /\ IncludesAllowed(JsonParse(d).type)))
  /\ IsSubsequence(PassedOn(history.toClient),
                   [i \in 1..Len(history.fromUpstream) |->
                      Reserialised(history.fromUpstream[i])])

\* two different client events and two different upstream events were
\* passed on, and a tool result of the session went upstream after them
C24_Witness ==
  /\ Len(PassedOn(history.toUpstream)) = 2
  /\ PassedOn(history.toUpstream)[1] # PassedOn(history.toUpstream)[2]
  /\ Len(PassedOn(history.toClient)) = 2
  /\ PassedOn(history.toClient)[1] # PassedOn(history.toClient)[2]
  /\ last.op = "upstream"
  /\ Len(history.toUpstream) > 0
  /\ history.toUpstream[Len(history.toUpstream)].kind = "made"

====
